---- MODULE Spec2Model ----
(***************************************************************************)
(* HabitFlow: the Dashboard component (habit list, completed-today set,    *)
(* filters, summary cards) and the StatsModal calendar heatmap, modelled   *)
(* from src/src/components/StatsModal.tsx.                                 *)
(*                                                                         *)
(* Strings are sequences of UTF-16 code units, so that toLowerCase,        *)
(* String.includes and the default Array.sort order are computed, not      *)
(* assumed.  JavaScript numbers are IEEE-754 doubles: the completion rate  *)
(* is computed on binary expansions with 53-bit rounding.                  *)
(***************************************************************************)
EXTENDS Integers, Sequences, FiniteSets, Bags, TLC

VARIABLES
  habits,          \* Dashboard: useState<HabitWithStreak[]>([])
  completedToday,  \* Dashboard: useState<Set<string>>(new Set())
  loading,         \* Dashboard: useState(true)
  showArchived,    \* Dashboard: useState(false)
  searchQuery,     \* Dashboard: useState('')
  selectedTag,     \* Dashboard: useState<string | null>(null)
  calls,           \* bag of handler invocations suspended at an await
  completions,     \* backend table habit_completions: rows [habit_id, date]
  lastEvent,       \* history: the handler step taken last
  actions,         \* history: number of user actions so far
  now,             \* the client clock: hours since 1970-01-01T00:00Z
  tz,              \* the client's time zone
  completionDates, \* StatsModal: useState<string[]>([])
  days,            \* StatsModal: what renderCalendar() returned last
  capacity,        \* run: handler invocations that may be in flight together
  faults,          \* run: whether the backend answers requests with errors
  statsModal,      \* StatsModal: stats and loading, Null while closed
  location,        \* the route shown (react-router)
  register,        \* Register: its useState values, Null while not mounted
  authCallback,    \* AuthCallback: its useState value, Null while not mounted
  dialogs,         \* Dashboard: useState of the dialogs and the create form
  evolve,          \* EvolveHabitModal: its useState values, Null while closed
  habitRows        \* backend table habits, newest row first

vars == <<habits, completedToday, loading, showArchived, searchQuery, selectedTag,
          calls, completions, lastEvent, actions, now, tz, completionDates, days,
          capacity, faults, statsModal, location, register, authCallback, dialogs, evolve, habitRows>>

dashboardVars == <<habits, completedToday, loading, showArchived, searchQuery,
                   selectedTag, calls, completions, lastEvent, actions>>
viewVars == <<habits, completedToday, loading, showArchived, searchQuery, selectedTag>>
clockVars == <<now, tz>>
statsVars == <<completionDates, days>>
otherVars == <<capacity, faults, statsModal, location, register, authCallback, dialogs, evolve, habitRows>>

----------------------------------------------------------------------------
(* Bounds of the model *)

\* longest habit list drawn for the derived-view specification
MaxHabits == 2

\* length of the one long habit list drawn there as well
LongList == 40

\* handler invocations in flight at the same time
MaxCalls == 2

\* user actions in a run (view switches, Complete clicks, filter changes)
MaxActions == 2

\* code units of the longest tags text drawn for the create-habit dialog
MaxTagText == 4

----------------------------------------------------------------------------
(* JavaScript values *)

\* null, and a non-null value v
Null == [null |-> TRUE]
Some(v) == [null |-> FALSE, v |-> v]

\* String.prototype.toLowerCase on one code unit (A-Z are 65..90, a-z 97..122)
toLowerCaseUnit(c) == IF c >= 65 /\ c <= 90 THEN c + 32 ELSE c

\* String.prototype.toLowerCase
toLowerCase(s) == [i \in 1..Len(s) |-> toLowerCaseUnit(s[i])]

\* String.prototype.includes(q): q occurs in s at some position
includes(s, q) ==
  \E k \in 0..(Len(s) - Len(q)) : \A i \in 1..Len(q) : s[k + i] = q[i]

\* Array.prototype.includes(x)
arrayIncludes(arr, x) == \E i \in 1..Len(arr) : arr[i] = x

\* the comparison of the default Array.prototype.sort: a before b when a is
\* smaller in code-unit order (a proper prefix is smaller)
RECURSIVE StrLess(_, _)
StrLess(a, b) ==
  IF Len(b) = 0 THEN FALSE
  ELSE IF Len(a) = 0 THEN TRUE
  ELSE IF a[1] # b[1] THEN a[1] < b[1]
  ELSE StrLess(Tail(a), Tail(b))

\* Array.from(new Set(arr)): first occurrences, in insertion order
RECURSIVE uniqueInOrder(_)
uniqueInOrder(arr) ==
  IF arr = <<>> THEN <<>>
  ELSE LET front == uniqueInOrder(SubSeq(arr, 1, Len(arr) - 1))
           last == arr[Len(arr)]
       IN IF arrayIncludes(front, last) THEN front ELSE Append(front, last)

\* insertion of x into an ascending array, after the elements not larger
RECURSIVE insertSorted(_, _)
insertSorted(arr, x) ==
  IF arr = <<>> THEN <<x>>
  ELSE IF StrLess(x, Head(arr)) THEN <<x>> \o arr
  ELSE <<Head(arr)>> \o insertSorted(Tail(arr), x)

\* Array.prototype.sort() with no comparator, on strings
RECURSIVE sort(_)
sort(arr) ==
  IF arr = <<>> THEN <<>>
  ELSE insertSorted(sort(SubSeq(arr, 1, Len(arr) - 1)), arr[Len(arr)])

\* Array.prototype.flatMap(h => h.tags || [])
RECURSIVE flatMapTags(_)
flatMapTags(hs) ==
  IF hs = <<>> THEN <<>>
  ELSE (IF Head(hs).tags = Null THEN <<>> ELSE Head(hs).tags.v) \o flatMapTags(Tail(hs))

----------------------------------------------------------------------------
(* JavaScript numbers: IEEE-754 binary64 on non-negative values.  A number *)
(* is [m, frac] and stands for m / 2^frac, where the natural number m is   *)
(* written as a sequence of limbs of LimbBits binary digits, the most      *)
(* significant first (<<>> is 0).  A double keeps 53 significant binary    *)
(* digits and every operation rounds to nearest, ties to even.             *)

\* significant binary digits a double keeps
MantissaBits == 53

\* binary digits per limb, small enough for every product below to stay
\* within 32-bit integers
LimbBits == 18
LimbBase == 2 ^ LimbBits

\* the limbs of a natural number n
RECURSIVE BigOf(_)
BigOf(n) == IF n = 0 THEN <<>> ELSE Append(BigOf(n \div LimbBase), n % LimbBase)

\* the natural number with these limbs (when it fits)
RECURSIVE ValueOf(_)
ValueOf(m) ==
  IF m = <<>> THEN 0
  ELSE LimbBase * ValueOf(SubSeq(m, 1, Len(m) - 1)) + m[Len(m)]

\* the limbs without leading zero limbs
StripZeros(m) ==
  LET nz == {i \in 1..Len(m) : m[i] # 0}
  IN IF nz = {} THEN <<>>
     ELSE SubSeq(m, CHOOSE i \in nz : \A j \in nz : i <= j, Len(m))

\* m * k + carry, for k < 2^12, from the least significant limb up
RECURSIVE BigTimesCarry(_, _, _)
BigTimesCarry(m, k, carry) ==
  IF m = <<>> THEN BigOf(carry)
  ELSE LET p == m[Len(m)] * k + carry
       IN Append(BigTimesCarry(SubSeq(m, 1, Len(m) - 1), k, p \div LimbBase),
                 p % LimbBase)

BigTimes(m, k) == StripZeros(BigTimesCarry(m, k, 0))
BigPlusOne(m) == BigTimesCarry(m, 1, 1)

\* number of binary digits of a natural number n < 2^31
RECURSIVE BitLengthOf(_)
BitLengthOf(n) == IF n = 0 THEN 0 ELSE 1 + BitLengthOf(n \div 2)

\* number of binary digits of m (no leading zero limb)
BitLength(m) == IF m = <<>> THEN 0 ELSE LimbBits * (Len(m) - 1) + BitLengthOf(m[1])

\* binary digit i of m, counted from the least significant one (0-based)
BitAt(m, i) ==
  LET limb == i \div LimbBits
  IN IF limb >= Len(m) THEN 0 ELSE (m[Len(m) - limb] \div 2 ^ (i % LimbBits)) % 2

\* floor(m / 2^s)
ShiftRight(m, s) ==
  LET q == s \div LimbBits
      r == s % LimbBits
      x == SubSeq(m, 1, Len(m) - q)
  IN StripZeros([i \in 1..Len(x) |->
                  x[i] \div 2 ^ r
                  + (IF i > 1 THEN (x[i - 1] % 2 ^ r) * 2 ^ (LimbBits - r) ELSE 0)])

\* the double nearest to the exact value, which is m / 2^frac when sticky is
\* false and lies strictly between m / 2^frac and (m + 1) / 2^frac otherwise
RoundToDouble(m, frac, sticky) ==
  LET drop == BitLength(m) - MantissaBits
  IN IF drop <= 0 THEN [m |-> m, frac |-> frac]
     ELSE LET kept == ShiftRight(m, drop)
              guard == BitAt(m, drop - 1)
              rest == sticky \/ \E i \in 0..(drop - 2) : BitAt(m, i) = 1
              up == guard = 1 /\ (rest \/ BitAt(kept, 0) = 1)
          IN [m |-> IF up THEN BigPlusOne(kept) ELSE kept, frac |-> frac - drop]

\* limbs of the quotient a long division produces after the binary point;
\* with divisors below 2^13 they hold the 53 digits, the guard digit and more
DivisionLimbs == 4

\* the first n limbs after the binary point of r / t, for 0 <= r < t < 2^13
RECURSIVE DivisionDigits(_, _, _)
DivisionDigits(r, t, n) ==
  IF n = 0 THEN <<>>
  ELSE <<(r * LimbBase) \div t>> \o DivisionDigits((r * LimbBase) % t, t, n - 1)

\* the remainder left after those n limbs
RECURSIVE DivisionRemainder(_, _, _)
DivisionRemainder(r, t, n) ==
  IF n = 0 THEN r ELSE DivisionRemainder((r * LimbBase) % t, t, n - 1)

\* the double c / t for naturals c and 0 < t < 2^13
NumberDivide(c, t) ==
  RoundToDouble(StripZeros(BigOf(c \div t) \o DivisionDigits(c % t, t, DivisionLimbs)),
                LimbBits * DivisionLimbs,
                DivisionRemainder(c % t, t, DivisionLimbs) # 0)

\* the double x * k for a double x and a natural number k < 2^12
NumberTimes(x, k) == RoundToDouble(BigTimes(x.m, k), x.frac, FALSE)

\* Math.round(x): the nearest integer, a tie going up
MathRound(x) ==
  ValueOf(ShiftRight(x.m, x.frac)) + (IF x.frac > 0 THEN BitAt(x.m, x.frac - 1) ELSE 0)

\* totalHabits > 0 ? Math.round((completedTodayCount / totalHabits) * 100) : 0
completionRate(completed, total) ==
  IF total > 0 THEN MathRound(NumberTimes(NumberDivide(completed, total), 100)) ELSE 0

----------------------------------------------------------------------------
(* JavaScript Date.  A time value is a number of hours since               *)
(* 1970-01-01T00:00Z; a local time value counts hours of local civil time. *)

HoursPerDay == 24

Day(t) == t \div HoursPerDay
TimeWithinDay(t) == t % HoursPerDay

\* the civil date [year, month (1..12), date] of a day number
CivilFromDay(day) ==
  LET z == day + 719468
      era == z \div 146097
      doe == z - era * 146097
      yoe == (doe - doe \div 1460 + doe \div 36524 - doe \div 146096) \div 365
      doy == doe - (365 * yoe + yoe \div 4 - yoe \div 100)
      mp == (5 * doy + 2) \div 153
      month == IF mp < 10 THEN mp + 3 ELSE mp - 9
  IN [year |-> yoe + era * 400 + (IF month <= 2 THEN 1 ELSE 0),
      month |-> month,
      date |-> doy - (153 * mp + 2) \div 5 + 1]

\* the day number of a civil date
DayFromCivil(year, month, date) ==
  LET y == IF month <= 2 THEN year - 1 ELSE year
      era == y \div 400
      yoe == y - era * 400
      doy == (153 * (IF month > 2 THEN month - 3 ELSE month + 9) + 2) \div 5 + date - 1
      doe == yoe * 365 + yoe \div 4 - yoe \div 100 + doy
  IN era * 146097 + doe - 719468

\* MakeDay(year, month, date): date may lie outside the month, and then
\* counts on from its first day
MakeDay(year, month, date) == DayFromCivil(year, month, 1) + date - 1

\* the time value of a UTC civil date and hour
TimeOf(year, month, date, hour) == DayFromCivil(year, month, date) * HoursPerDay + hour

\* Time zones: a standard offset, and a daylight-saving offset in force
\* during the periods [from, until) given in UTC
UTC == [std |-> 0, dst |-> 0, periods |-> {}]
AsiaTokyo == [std |-> 9, dst |-> 9, periods |-> {}]
EuropeMadrid ==
  [std |-> 1, dst |-> 2,
   periods |-> {<<TimeOf(2023, 3, 26, 1), TimeOf(2023, 10, 29, 1)>>,
                <<TimeOf(2024, 3, 31, 1), TimeOf(2024, 10, 27, 1)>>}]
AmericaNewYork ==
  [std |-> -5, dst |-> -4,
   periods |-> {<<TimeOf(2023, 3, 12, 7), TimeOf(2023, 11, 5, 6)>>,
                <<TimeOf(2024, 3, 10, 7), TimeOf(2024, 11, 3, 6)>>}]

\* LocalTZA(t, true): the offset in force at the UTC time value t
OffsetAt(zone, t) ==
  IF \E p \in zone.periods : p[1] <= t /\ t < p[2] THEN zone.dst ELSE zone.std

\* LocalTime(t)
LocalTime(zone, t) == t + OffsetAt(zone, t)

\* UTC(t): a local time that is skipped or repeated at a transition is read
\* with the offset in force before the transition
UTCTime(zone, local) ==
  IF OffsetAt(zone, local - zone.dst) = zone.dst
    THEN local - zone.dst
    ELSE local - zone.std

\* Date.prototype.getDate()
getDate(zone, t) == CivilFromDay(Day(LocalTime(zone, t))).date

\* Date.prototype.setDate(date): the new time value
setDate(zone, t, date) ==
  LET local == LocalTime(zone, t)
      civil == CivilFromDay(Day(local))
  IN UTCTime(zone, MakeDay(civil.year, civil.month, date) * HoursPerDay
                   + TimeWithinDay(local))

\* the code units of a number below 10^width, zero-padded
RECURSIVE Digits(_, _)
Digits(n, width) ==
  IF width = 0 THEN <<>> ELSE Append(Digits(n \div 10, width - 1), 48 + (n % 10))

\* date.toISOString().split('T')[0]: "YYYY-MM-DD" of the UTC date
ISODate(t) ==
  LET civil == CivilFromDay(Day(t))
  IN Digits(civil.year, 4) \o <<45>> \o Digits(civil.month, 2) \o <<45>>
     \o Digits(civil.date, 2)

----------------------------------------------------------------------------
(* StatsModal *)

\* days the heatmap shows
CalendarDays == 90

\* renderCalendar(): one cell per loop round (title, green, ring)
renderCalendar ==
  LET today == now
      startDate == setDate(tz, now, getDate(tz, today) - (CalendarDays - 1))
  IN [k \in 1..CalendarDays |->
        LET currentDate == setDate(tz, startDate, getDate(tz, startDate) + (k - 1))
            dateString == ISODate(currentDate)
        IN [title |-> dateString,
            isCompleted |-> arrayIncludes(completionDates, dateString),
            isToday |-> dateString = ISODate(today)]]

\* the StatsModal body is rendered
RenderCalendar ==
  /\ days' = renderCalendar
  /\ UNCHANGED <<dashboardVars, clockVars, completionDates, otherVars>>


----------------------------------------------------------------------------
(* Dashboard: values derived on every render *)

\* .filter(tag => tag.length > 0)
RECURSIVE filterNonEmpty(_)
filterNonEmpty(arr) ==
  IF arr = <<>> THEN <<>>
  ELSE (IF Len(Head(arr)) > 0 THEN <<Head(arr)>> ELSE <<>>) \o filterNonEmpty(Tail(arr))

\* the tags in the order met, .sort() left out
allTagsUnsorted(hs) == uniqueInOrder(filterNonEmpty(flatMapTags(hs)))

\* const allTags = Array.from(new Set(habits.flatMap(...).filter(...))).sort()
allTagsOf(hs) == sort(uniqueInOrder(filterNonEmpty(flatMapTags(hs))))

\* an empty query matches no habit
matchesSearchNonEmpty(habit, query) ==
  query # <<>> /\ includes(toLowerCase(habit.name), toLowerCase(query))

\* habit.name.toLowerCase().includes(searchQuery.toLowerCase())
matchesSearch(habit, query) == includes(toLowerCase(habit.name), toLowerCase(query))

\* a null tag list matches every tag
matchesTagOrNull(habit, tag) ==
  \/ tag = Null
  \/ tag.v = <<>>
  \/ habit.tags = Null
  \/ arrayIncludes(habit.tags.v, tag.v)

\* !selectedTag || habit.tags?.includes(selectedTag): null and '' are falsy;
\* on a null tag list the optional chain gives undefined, which is falsy
matchesTag(habit, tag) ==
  \/ tag = Null
  \/ tag.v = <<>>
  \/ (habit.tags # Null /\ arrayIncludes(habit.tags.v, tag.v))

\* habits.filter(habit => matchesSearch && matchesTag)
RECURSIVE filterHabits(_, _, _)
filterHabits(hs, query, tag) ==
  IF hs = <<>> THEN <<>>
  ELSE (IF matchesSearch(Head(hs), query) /\ matchesTag(Head(hs), tag)
          THEN <<Head(hs)>> ELSE <<>>)
       \o filterHabits(Tail(hs), query, tag)

\* completedToday.size: the whole set, not the filtered habits in it
completedTodaySize(hs, done) == Cardinality(done)

\* filteredHabits.filter(h => completedToday.has(h.id)).length
RECURSIVE countCompleted(_, _)
countCompleted(hs, done) ==
  IF hs = <<>> THEN 0
  ELSE (IF Head(hs).id \in done THEN 1 ELSE 0) + countCompleted(Tail(hs), done)

allTags == allTagsOf(habits)
filteredHabits == filterHabits(habits, searchQuery, selectedTag)
completedTodayCount == countCompleted(filteredHabits, completedToday)
totalHabits == Len(filteredHabits)
rate == completionRate(completedTodayCount, totalHabits)

----------------------------------------------------------------------------
(* Text used in the model, as UTF-16 code units *)

Empty == <<>>
Str_Read == <<82, 101, 97, 100>>
Str_Run == <<82, 117, 110>>
Str_Nap == <<78, 97, 112>>
Str_bREAd == <<98, 82, 69, 65, 100>>
Str_re == <<114, 101>>
Str_RE == <<82, 69>>
Str_un == <<117, 110>>
Str_br == <<98, 114>>
Str_q == <<113>>
Str_x == <<120>>
Str_y == <<121>>
Str_X == <<88>>
Str_xy == <<120, 121>>

----------------------------------------------------------------------------
(* The backend (Supabase), as section 6 of the specification describes it *)

\* const today = new Date().toISOString().split('T')[0]
today == ISODate(now)
yesterday == ISODate(now - HoursPerDay)

\* table habits, ordered by created_at descending
habitsTable ==
  << [id |-> 1, name |-> Str_Read, description |-> Some(Str_re),
      tags |-> Some(<<Str_x>>), is_archived |-> FALSE],
     [id |-> 2, name |-> Str_Run, description |-> Null,
      tags |-> Null, is_archived |-> FALSE],
     [id |-> 3, name |-> Str_Nap, description |-> Null,
      tags |-> Null, is_archived |-> TRUE] >>

HabitIds == {habitsTable[i].id : i \in 1..Len(habitsTable)}

Completion(habitId, date) == [habit_id |-> habitId, date |-> date]

\* from('habits').select('*').eq('is_archived', flag).order('created_at', desc);
\* each row still waits for the reply to its get_current_streak call
RECURSIVE selectHabits(_, _)
selectHabits(rows, flag) ==
  IF rows = <<>> THEN <<>>
  ELSE (IF Head(rows).is_archived = flag
          THEN <<[habit |-> Head(rows), rpc |-> <<>>]>> ELSE <<>>)
       \o selectHabits(Tail(rows), flag)

\* rpc get_current_streak: consecutive completed days ending today
get_current_streak(habitId) ==
  IF Completion(habitId, today) \notin completions THEN 0
  ELSE IF Completion(habitId, yesterday) \notin completions THEN 1
  ELSE 2

\* from('habit_completions').select('habit_id').eq('date', date), in id order
RECURSIVE selectCompletions(_, _)
selectCompletions(ids, date) ==
  IF ids = {} THEN <<>>
  ELSE LET least == CHOOSE i \in ids : \A j \in ids : i <= j
       IN (IF Completion(least, date) \in completions
             THEN <<[habit_id |-> least]>> ELSE <<>>)
          \o selectCompletions(ids \ {least}, date)

\* rows a delete with these eq filters removes (a Null filter is absent)
deletedRows(habitId, date) ==
  {r \in completions : r.habit_id = habitId /\ (date = Null \/ r.date = date.v)}

----------------------------------------------------------------------------
(* Dashboard: handler invocations.  A call is an async function suspended  *)
(* at an await: pc "sent" while the backend has not executed the request,  *)
(* "replied" once it has; error and data are the reply.  archived is the   *)
(* showArchived the fetchHabits closure of the call has captured, payload  *)
(* the form values the handler has captured (Null when it has none).       *)

Call(fn, habitId, date, archived) ==
  [fn |-> fn, habitId |-> habitId, date |-> date, archived |-> archived,
   payload |-> Null, pc |-> "sent", error |-> FALSE, data |-> <<>>]

CallWith(fn, habitId, payload) ==
  [Call(fn, habitId, Null, showArchived) EXCEPT !.payload = Some(payload)]

Reply(call, error, data) == [call EXCEPT !.pc = "replied", !.error = error, !.data = data]

One(call) == SetToBag({call})
InFlight == BagToSet(calls)
Room(n) == BagCardinality(calls) + n <= capacity
Event(step, habitId) == [step |-> step, habitId |-> habitId]

\* the request carries the flag of the view the switch has just left
fetchHabitsCallStale(archived) == Call("fetchHabits", 0, Null, ~archived)

\* fetchHabits(), up to its first await: setLoading(true) is part of the step
fetchHabitsCall(archived) == Call("fetchHabits", 0, Null, archived)

\* fetchTodayCompletions(), up to its await
fetchTodayCompletionsCall == Call("fetchTodayCompletions", 0, Some(today), FALSE)

\* handleCompleteHabit(habitId), up to its await: rpc('complete_habit', {p_habit_id})
completeCall(habitId) == Call("handleCompleteHabit", habitId, Null, showArchived)

\* the delete without .eq('date', today)
uncompleteCallAnyDate(habitId) == Call("handleUncompleteHabit", habitId, Null, showArchived)

\* handleUncompleteHabit(habitId), up to its await:
\* .delete().eq('habit_id', habitId).eq('date', today)
uncompleteCall(habitId) == Call("handleUncompleteHabit", habitId, Some(today), showArchived)

\* { ...habit, currentStreak: streakData || 0 }
habitWithStreak(row) ==
  [id |-> row.habit.id, name |-> row.habit.name,
   description |-> row.habit.description, tags |-> row.habit.tags,
   is_archived |-> row.habit.is_archived,
   currentStreak |-> IF row.rpc[1] = Null THEN 0 ELSE row.rpc[1].v]

\* useState(false) of showAddHabit, showStatsModal, showEvolveModal and
\* showDeleteConfirm, useState(null) of
\* selectedHabit, useState({ name: '', description: '', tags: '' }) of newHabit
NoDialogs ==
  [showAddHabit |-> FALSE, showStatsModal |-> FALSE, showEvolveModal |-> FALSE,
   showDeleteConfirm |-> FALSE, selectedHabit |-> Null,
   newHabit |-> [name |-> <<>>, description |-> <<>>, tags |-> <<>>]]

\* the Dashboard is the page shown and no dialog (a fixed inset-0 overlay)
\* covers it
DashboardClickable ==
  /\ location = "/dashboard"
  /\ ~dialogs.showAddHabit
  /\ ~dialogs.showStatsModal
  /\ ~dialogs.showEvolveModal
  /\ ~dialogs.showDeleteConfirm

----------------------------------------------------------------------------
(* Dashboard: user actions *)

\* onClick={() => setShowArchived(!showArchived)}; the effect then runs again
\* with the new fetchHabits: fetchHabits() and fetchTodayCompletions()
ToggleShowArchived ==
  /\ DashboardClickable
  /\ Room(2)
  /\ actions < MaxActions
  /\ actions' = actions + 1
  /\ showArchived' = ~showArchived
  /\ loading' = TRUE
  /\ calls' = calls (+) One(fetchHabitsCall(~showArchived)) (+) One(fetchTodayCompletionsCall)
  /\ lastEvent' = Event("toggle", 0)
  /\ UNCHANGED <<habits, completedToday, searchQuery, selectedTag, completions,
                 clockVars, statsVars, otherVars>>

\* onChange={e => setSearchQuery(e.target.value)}: fired when the text of
\* the controlled input changes
SetSearchQuery(q) ==
  /\ DashboardClickable
  /\ q # searchQuery
  /\ actions < MaxActions
  /\ actions' = actions + 1
  /\ searchQuery' = q
  /\ lastEvent' = Event("filter", 0)
  /\ UNCHANGED <<habits, completedToday, loading, showArchived, selectedTag, calls,
                 completions, clockVars, statsVars, otherVars>>

\* onChange={e => setSelectedTag(e.target.value || null)}: the select is
\* rendered when allTags is not empty, with the options '' and allTags;
\* fired when another option is chosen
SetSelectedTag(t) ==
  /\ DashboardClickable
  /\ t # (IF selectedTag = Null THEN Empty ELSE selectedTag.v)
  /\ actions < MaxActions
  /\ actions' = actions + 1
  /\ Len(allTags) > 0
  /\ t = Empty \/ arrayIncludes(allTags, t)
  /\ selectedTag' = (IF t = Empty THEN Null ELSE Some(t))
  /\ lastEvent' = Event("filter", 0)
  /\ UNCHANGED <<habits, completedToday, loading, showArchived, searchQuery, calls,
                 completions, clockVars, statsVars, otherVars>>

\* the button is disabled while a complete or uncomplete of its habit is
\* in flight
ClickCompleteOnce(k) ==
  /\ DashboardClickable
  /\ ~loading
  /\ ~showArchived
  /\ k \in 1..Len(filteredHabits)
  /\ \A c \in DOMAIN calls :
       c.fn \in {"handleCompleteHabit", "handleUncompleteHabit"}
         => c.habitId # filteredHabits[k].id
  /\ Room(1)
  /\ actions < MaxActions
  /\ actions' = actions + 1
  /\ LET id == filteredHabits[k].id
     IN /\ calls' = calls (+) One(IF id \in completedToday
                                    THEN uncompleteCall(id) ELSE completeCall(id))
        /\ lastEvent' = Event("click", id)
  /\ UNCHANGED <<habits, completedToday, loading, showArchived, searchQuery,
                 selectedTag, completions, clockVars, statsVars, otherVars>>

\* the Complete button of a listed habit: rendered when the list is
\* (!loading) and the view is the active one (!showArchived)
\* onClick: isCompleted ? handleUncompleteHabit(id) : handleCompleteHabit(id)
ClickComplete(k) ==
  /\ DashboardClickable
  /\ ~loading
  /\ ~showArchived
  /\ k \in 1..Len(filteredHabits)
  /\ Room(1)
  /\ actions < MaxActions
  /\ actions' = actions + 1
  /\ LET id == filteredHabits[k].id
     IN /\ calls' = calls (+) One(IF id \in completedToday
                                    THEN uncompleteCall(id) ELSE completeCall(id))
        /\ lastEvent' = Event("click", id)
  /\ UNCHANGED <<habits, completedToday, loading, showArchived, searchQuery,
                 selectedTag, completions, clockVars, statsVars, otherVars>>

----------------------------------------------------------------------------
(* The backend executes a request; any request may fail *)

BackendSelectHabits(c, error) ==
  /\ c.fn = "fetchHabits" /\ c.pc = "sent"
  /\ error => faults
  /\ calls' = (calls (-) One(c))
               (+) One(Reply(c, error,
                             IF error THEN <<>> ELSE selectHabits(habitRows, c.archived)))
  /\ lastEvent' = Event("backend", 0)
  /\ UNCHANGED <<actions, habits, completedToday, loading, showArchived, searchQuery,
                 selectedTag, completions, clockVars, statsVars, otherVars>>

\* one get_current_streak call of the Promise.all; on an error data is null
BackendGetCurrentStreak(c, i, error) ==
  /\ c.fn = "fetchHabits" /\ c.pc = "replied" /\ ~c.error
  /\ error => faults
  /\ i \in 1..Len(c.data)
  /\ c.data[i].rpc = <<>>
  /\ LET streak == IF error THEN Null ELSE Some(get_current_streak(c.data[i].habit.id))
     IN calls' = (calls (-) One(c)) (+) One([c EXCEPT !.data[i].rpc = <<streak>>])
  /\ lastEvent' = Event("backend", 0)
  /\ UNCHANGED <<actions, habits, completedToday, loading, showArchived, searchQuery,
                 selectedTag, completions, clockVars, statsVars, otherVars>>

BackendSelectTodayCompletions(c, error) ==
  /\ c.fn = "fetchTodayCompletions" /\ c.pc = "sent"
  /\ error => faults
  /\ calls' = (calls (-) One(c))
               (+) One(Reply(c, error,
                             IF error THEN <<>>
                             ELSE selectCompletions({r.habit_id : r \in completions},
                                                    c.date.v)))
  /\ lastEvent' = Event("backend", 0)
  /\ UNCHANGED <<actions, habits, completedToday, loading, showArchived, searchQuery,
                 selectedTag, completions, clockVars, statsVars, otherVars>>

\* rpc complete_habit: records the habit as completed today
BackendCompleteHabit(c, error) ==
  /\ c.fn = "handleCompleteHabit" /\ c.pc = "sent"
  /\ error => faults
  /\ calls' = (calls (-) One(c)) (+) One(Reply(c, error, <<>>))
  /\ completions' = (IF error THEN completions
                      ELSE completions \cup {Completion(c.habitId, today)})
  /\ lastEvent' = Event("backend", 0)
  /\ UNCHANGED <<actions, habits, completedToday, loading, showArchived, searchQuery,
                 selectedTag, clockVars, statsVars, otherVars>>

\* from('habit_completions').delete() with the eq filters of the request
BackendDeleteCompletion(c, error) ==
  /\ c.fn = "handleUncompleteHabit" /\ c.pc = "sent"
  /\ error => faults
  /\ calls' = (calls (-) One(c)) (+) One(Reply(c, error, <<>>))
  /\ completions' = (IF error THEN completions
                      ELSE completions \ deletedRows(c.habitId, c.date))
  /\ lastEvent' = Event("backend", 0)
  /\ UNCHANGED <<actions, habits, completedToday, loading, showArchived, searchQuery,
                 selectedTag, clockVars, statsVars, otherVars>>

----------------------------------------------------------------------------
(* Dashboard: a handler resumes after its await *)

\* fetchHabits after the select, and after Promise.all when there is no error
fetchHabitsResume(c) ==
  /\ c.fn = "fetchHabits" /\ c.pc = "replied"
  /\ c.error \/ \A i \in 1..Len(c.data) : c.data[i].rpc # <<>>
  /\ habits' = (IF c.error THEN <<>>
                 ELSE [i \in 1..Len(c.data) |-> habitWithStreak(c.data[i])])
  /\ loading' = FALSE
  /\ calls' = calls (-) One(c)
  /\ lastEvent' = Event(IF c.error THEN "fetchHabits failed" ELSE "fetchHabits done", 0)
  /\ UNCHANGED <<actions, completedToday, showArchived, searchQuery, selectedTag, completions,
                 clockVars, statsVars, otherVars>>

\* new Set(data?.map(c => c.habit_id) || [])
fetchTodayCompletionsResume(c) ==
  /\ c.fn = "fetchTodayCompletions" /\ c.pc = "replied"
  /\ completedToday' = (IF c.error THEN completedToday
                         ELSE {c.data[i].habit_id : i \in 1..Len(c.data)})
  /\ calls' = calls (-) One(c)
  /\ lastEvent' = Event(IF c.error THEN "fetchTodayCompletions failed"
                                    ELSE "fetchTodayCompletions done", 0)
  /\ UNCHANGED <<actions, habits, loading, showArchived, searchQuery, selectedTag, completions,
                 clockVars, statsVars, otherVars>>

\* new Set([habitId]): the previous members are dropped
onlyCompleted(prev, habitId) == {habitId}

\* setCompletedToday(prev => new Set([...prev, habitId]))
addCompleted(prev, habitId) == prev \cup {habitId}

\* setCompletedToday(prev => { newSet.delete(habitId); return newSet })
removeCompleted(prev, habitId) == prev \ {habitId}

\* fetchHabits() after the if, on an error too
afterToggleAlways(c) == One(fetchHabitsCall(c.archived))

\* calls a toggle handler leaves in flight after its await: on success
\* fetchHabits() of the closure, on an error none
afterToggle(c) == IF c.error THEN EmptyBag ELSE One(fetchHabitsCall(c.archived))

handleCompleteHabitResume(c) ==
  /\ c.fn = "handleCompleteHabit" /\ c.pc = "replied"
  /\ completedToday' = (IF c.error THEN completedToday
                         ELSE addCompleted(completedToday, c.habitId))
  /\ loading' = (IF c.error THEN loading ELSE TRUE)
  /\ calls' = (calls (-) One(c)) (+) afterToggle(c)
  /\ lastEvent' = Event(IF c.error THEN "complete failed" ELSE "complete done", c.habitId)
  /\ UNCHANGED <<actions, habits, showArchived, searchQuery, selectedTag, completions,
                 clockVars, statsVars, otherVars>>

handleUncompleteHabitResume(c) ==
  /\ c.fn = "handleUncompleteHabit" /\ c.pc = "replied"
  /\ completedToday' = (IF c.error THEN completedToday
                         ELSE removeCompleted(completedToday, c.habitId))
  /\ loading' = (IF c.error THEN loading ELSE TRUE)
  /\ calls' = (calls (-) One(c)) (+) afterToggle(c)
  /\ lastEvent' = Event(IF c.error THEN "uncomplete failed" ELSE "uncomplete done",
                        c.habitId)
  /\ UNCHANGED <<actions, habits, showArchived, searchQuery, selectedTag, completions,
                 clockVars, statsVars, otherVars>>

----------------------------------------------------------------------------
(* JS String.prototype.trim: strips WhiteSpace and LineTerminator code     *)
(* units from both ends                                                     *)

WhiteSpace ==
  {9, 10, 11, 12, 13, 32, 160, 5760, 8232, 8233, 8239, 8287, 12288, 65279}
    \cup (8192..8202)

RECURSIVE trimStart(_)
trimStart(s) ==
  IF s # <<>> /\ Head(s) \in WhiteSpace THEN trimStart(Tail(s)) ELSE s

RECURSIVE trimEnd(_)
trimEnd(s) ==
  IF s # <<>> /\ s[Len(s)] \in WhiteSpace THEN trimEnd(SubSeq(s, 1, Len(s) - 1)) ELSE s

trim(s) == trimEnd(trimStart(s))

----------------------------------------------------------------------------
(* navigate('/dashboard'): the Dashboard mounts with its useState values   *)
(* and its effect calls fetchHabits() and fetchTodayCompletions(); others  *)
(* are the invocations the page left behind has in flight                  *)

DashboardMount(others) ==
  /\ location' = "/dashboard"
  /\ habits' = <<>>
  /\ completedToday' = {}
  /\ loading' = TRUE
  /\ showArchived' = FALSE
  /\ searchQuery' = Empty
  /\ selectedTag' = Null
  /\ dialogs' = NoDialogs
  /\ evolve' = Null
  /\ calls' = others (+) One(fetchHabitsCall(FALSE)) (+) One(fetchTodayCompletionsCall)
  /\ lastEvent' = Event("mount", 0)

----------------------------------------------------------------------------
(* Register (pages/Register.tsx) *)

Str_email == <<97, 64, 98, 46, 99>>
Str_12345 == <<49, 50, 51, 52, 53>>
Str_123456 == <<49, 50, 51, 52, 53, 54>>
Str_abcdef == <<97, 98, 99, 100, 101, 102>>

\* the useState values of a Register just mounted; timer is the pending
\* setTimeout(() => navigate('/dashboard'), 2000)
RegisterMounted ==
  [email |-> Empty, password |-> Empty, confirmPassword |-> Empty,
   loading |-> FALSE, error |-> "", success |-> FALSE,
   needsEmailVerification |-> FALSE, timer |-> FALSE]

\* the inputs are disabled={success}
setEmail(e) ==
  /\ location = "/register"
  /\ ~register.success
  /\ e # register.email
  /\ register' = [register EXCEPT !.email = e]
  /\ lastEvent' = Event("type", 0)
  /\ UNCHANGED <<viewVars, calls, completions, actions, clockVars, statsVars,
                 capacity, faults, statsModal, location, authCallback, dialogs, evolve, habitRows>>

setPassword(p) ==
  /\ location = "/register"
  /\ ~register.success
  /\ p # register.password
  /\ register' = [register EXCEPT !.password = p]
  /\ lastEvent' = Event("type", 0)
  /\ UNCHANGED <<viewVars, calls, completions, actions, clockVars, statsVars,
                 capacity, faults, statsModal, location, authCallback, dialogs, evolve, habitRows>>

setConfirmPassword(p) ==
  /\ location = "/register"
  /\ ~register.success
  /\ p # register.confirmPassword
  /\ register' = [register EXCEPT !.confirmPassword = p]
  /\ lastEvent' = Event("type", 0)
  /\ UNCHANGED <<viewVars, calls, completions, actions, clockVars, statsVars,
                 capacity, faults, statsModal, location, authCallback, dialogs, evolve, habitRows>>

passwordsDiffer(r) == r.password # r.confirmPassword
\* the limit is one character lower
passwordShorterThanFive(r) == Len(r.password) < 5

passwordTooShort(r) == Len(r.password) < 6

signUpCall(r) == CallWith("signUp", 0, [email |-> r.email, password |-> r.password])

\* handleSubmit up to its await.  The form submits when the three inputs
\* (required) are filled in and the button (disabled={loading || success})
\* is enabled.
handleSubmit ==
  /\ location = "/register"
  /\ ~(register.loading \/ register.success)
  /\ register.email # Empty /\ register.password # Empty
  /\ register.confirmPassword # Empty
  /\ actions < MaxActions
  /\ actions' = actions + 1
  /\ lastEvent' = Event("submit", 0)
  /\ IF passwordsDiffer(register)
       THEN /\ register' = [register EXCEPT !.error = "Passwords do not match",
                                            !.success = FALSE]
            /\ calls' = calls
       ELSE IF passwordTooShort(register)
         THEN /\ register' =
                   [register EXCEPT
                      !.error = "Password must be at least 6 characters long",
                      !.success = FALSE]
              /\ calls' = calls
         ELSE /\ Room(1)
              /\ register' = [register EXCEPT !.error = "", !.success = FALSE,
                                              !.loading = TRUE]
              /\ calls' = calls (+) One(signUpCall(register))
  /\ UNCHANGED <<viewVars, completions, clockVars, statsVars,
                 capacity, faults, statsModal, location, authCallback, dialogs, evolve, habitRows>>

\* supabase.auth.signUp answers with an error, or with data.user and
\* data.session (session null while the e-mail is to be verified)
SignUpReplies ==
  { [error |-> TRUE, message |-> "User already registered", user |-> FALSE,
     session |-> FALSE],
    [error |-> FALSE, message |-> "", user |-> TRUE, session |-> TRUE],
    [error |-> FALSE, message |-> "", user |-> TRUE, session |-> FALSE] }

BackendSignUp(c, reply) ==
  /\ c.fn = "signUp" /\ c.pc = "sent"
  /\ calls' = (calls (-) One(c)) (+) One(Reply(c, reply.error, <<reply>>))
  /\ lastEvent' = Event("backend", 0)
  /\ UNCHANGED <<viewVars, completions, actions, clockVars, statsVars, otherVars>>

\* handleSubmit after its await with setLoading(false) at the end of the try
\* block, not in a finally
handleSubmitResumeNoFinally(c) ==
  /\ c.fn = "signUp" /\ c.pc = "replied"
  /\ calls' = calls (-) One(c)
  /\ LET reply == c.data[1]
     IN IF c.error
          THEN /\ register' = [register EXCEPT !.error = reply.message]
               /\ lastEvent' = Event("signUp failed", 0)
          ELSE /\ register' =
                    [register EXCEPT
                       !.success = reply.user,
                       !.needsEmailVerification = reply.user /\ ~reply.session,
                       !.timer = reply.user /\ reply.session,
                       !.loading = FALSE]
               /\ lastEvent' = Event("signUp done", 0)
  /\ UNCHANGED <<viewVars, completions, actions, clockVars, statsVars,
                 capacity, faults, statsModal, location, authCallback, dialogs, evolve, habitRows>>

\* handleSubmit after its await: throw signUpError into the catch, or
\* setSuccess(true) and the two ways on; finally setLoading(false)
handleSubmitResume(c) ==
  /\ c.fn = "signUp" /\ c.pc = "replied"
  /\ calls' = calls (-) One(c)
  /\ LET reply == c.data[1]
     IN IF c.error
          THEN /\ register' = [register EXCEPT !.error = reply.message,
                                               !.loading = FALSE]
               /\ lastEvent' = Event("signUp failed", 0)
          ELSE /\ register' =
                    [register EXCEPT
                       !.success = reply.user,
                       !.needsEmailVerification = reply.user /\ ~reply.session,
                       !.timer = reply.user /\ reply.session,
                       !.loading = FALSE]
               /\ lastEvent' = Event("signUp done", 0)
  /\ UNCHANGED <<viewVars, completions, actions, clockVars, statsVars,
                 capacity, faults, statsModal, location, authCallback, dialogs, evolve, habitRows>>

\* the timer fires: navigate('/dashboard'); Register unmounts, the Dashboard
\* mounts and its effect calls fetchHabits() and fetchTodayCompletions()
RegisterTimeout ==
  /\ location = "/register"
  /\ register.timer
  /\ Room(2)
  /\ register' = Null
  /\ DashboardMount(calls)
  /\ UNCHANGED <<completions, actions, clockVars, statsVars, capacity, faults, statsModal,
                 authCallback, habitRows>>

----------------------------------------------------------------------------
(* Dashboard: the create-habit dialog *)

Str_blank == <<32, 32>>
Str_Walk == <<87, 97, 108, 107>>
Str_x_y == <<120, 44, 32, 121, 44>>

\* tagsString.split(','): the pieces between the commas (code unit 44)
RECURSIVE split(_, _)
split(s, piece) ==
  IF s = <<>> THEN <<piece>>
  ELSE IF Head(s) = 44 THEN <<piece>> \o split(Tail(s), <<>>)
  ELSE split(Tail(s), Append(piece, Head(s)))

RECURSIVE nonEmptyTrimmed(_)
nonEmptyTrimmed(pieces) ==
  IF pieces = <<>> THEN <<>>
  ELSE (IF Len(trim(Head(pieces))) > 0 THEN <<trim(Head(pieces))>> ELSE <<>>)
         \o nonEmptyTrimmed(Tail(pieces))

RECURSIVE nonEmpty(_)
nonEmpty(pieces) ==
  IF pieces = <<>> THEN <<>>
  ELSE (IF Len(Head(pieces)) > 0 THEN <<Head(pieces)>> ELSE <<>>)
         \o nonEmpty(Tail(pieces))

\* .split(',').filter(tag => tag.length > 0) with no trim, and null when
\* nothing is left
parseTagsUntrimmed(tagsString) ==
  LET tags == nonEmpty(split(tagsString, <<>>))
  IN IF Len(tags) > 0 THEN Some(tags) ELSE Null

\* .split(',').map(tag => tag.trim()).filter(tag => tag.length > 0),
\* and null when nothing is left
parseTags(tagsString) ==
  LET tags == nonEmptyTrimmed(split(tagsString, <<>>))
  IN IF Len(tags) > 0 THEN Some(tags) ELSE Null

\* onClick={() => setShowAddHabit(true)}
openAddHabit ==
  /\ DashboardClickable
  /\ actions < MaxActions
  /\ actions' = actions + 1
  /\ dialogs' = [dialogs EXCEPT !.showAddHabit = TRUE]
  /\ lastEvent' = Event("open add", 0)
  /\ UNCHANGED <<viewVars, calls, completions, clockVars, statsVars,
                 capacity, faults, statsModal, location, register, authCallback, evolve, habitRows>>

\* onChange={e => setNewHabit({ ...newHabit, name: e.target.value })}
setNewHabitName(n) ==
  /\ location = "/dashboard" /\ dialogs.showAddHabit
  /\ n # dialogs.newHabit.name
  /\ dialogs' = [dialogs EXCEPT !.newHabit.name = n]
  /\ lastEvent' = Event("type", 0)
  /\ UNCHANGED <<viewVars, calls, completions, actions, clockVars, statsVars,
                 capacity, faults, statsModal, location, register, authCallback, evolve, habitRows>>

\* onChange={e => setNewHabit({ ...newHabit, tags: e.target.value })}
setNewHabitTags(t) ==
  /\ location = "/dashboard" /\ dialogs.showAddHabit
  /\ t # dialogs.newHabit.tags
  /\ dialogs' = [dialogs EXCEPT !.newHabit.tags = t]
  /\ lastEvent' = Event("type", 0)
  /\ UNCHANGED <<viewVars, calls, completions, actions, clockVars, statsVars,
                 capacity, faults, statsModal, location, register, authCallback, evolve, habitRows>>

\* Cancel: onClick={() => setShowAddHabit(false)}
cancelAddHabit ==
  /\ location = "/dashboard" /\ dialogs.showAddHabit
  /\ dialogs' = [dialogs EXCEPT !.showAddHabit = FALSE]
  /\ lastEvent' = Event("cancel add", 0)
  /\ UNCHANGED <<viewVars, calls, completions, actions, clockVars, statsVars,
                 capacity, faults, statsModal, location, register, authCallback, evolve, habitRows>>

nameIsBlank(newHabit) == trim(newHabit.name) = <<>>

\* what the dialog (the block under showAddHabit) shows as an error: it
\* renders the inputs, the suggestions and the two buttons, and no message
addHabitError == ""

getUserCall(newHabit) == CallWith("handleAddHabit", 0, newHabit)

\* handleAddHabit up to its first await, without the return on a blank name
handleAddHabitAnyName ==
  /\ location = "/dashboard" /\ dialogs.showAddHabit
  /\ actions < MaxActions
  /\ actions' = actions + 1
  /\ lastEvent' = Event("create", 0)
  /\ Room(1)
  /\ calls' = calls (+) One(getUserCall(dialogs.newHabit))
  /\ UNCHANGED <<viewVars, completions, clockVars, statsVars, otherVars>>

\* handleAddHabit up to its first await (supabase.auth.getUser());
\* if (!newHabit.name.trim()) return
handleAddHabit ==
  /\ location = "/dashboard" /\ dialogs.showAddHabit
  /\ actions < MaxActions
  /\ actions' = actions + 1
  /\ lastEvent' = Event("create", 0)
  /\ IF nameIsBlank(dialogs.newHabit)
       THEN calls' = calls
       ELSE /\ Room(1)
            /\ calls' = calls (+) One(getUserCall(dialogs.newHabit))
  /\ UNCHANGED <<viewVars, completions, clockVars, statsVars, otherVars>>

BackendGetUser(c, user) ==
  /\ c.fn = "handleAddHabit" /\ c.pc = "sent"
  /\ calls' = (calls (-) One(c)) (+) One(Reply(c, FALSE, <<[user |-> user]>>))
  /\ lastEvent' = Event("backend", 0)
  /\ UNCHANGED <<viewVars, completions, actions, clockVars, statsVars, otherVars>>

\* if (!user) return; then up to the await of from('habits').insert([...])
handleAddHabitInsert(c) ==
  /\ c.fn = "handleAddHabit" /\ c.pc = "replied"
  /\ calls' = IF c.data[1].user
                THEN (calls (-) One(c))
                       (+) One([c EXCEPT !.fn = "insert", !.pc = "sent", !.data = <<>>])
                ELSE calls (-) One(c)
  /\ lastEvent' = Event("insert", 0)
  /\ UNCHANGED <<viewVars, completions, actions, clockVars, statsVars, otherVars>>

\* the row of the insert: description: newHabit.description || null,
\* tags: parseTags(newHabit.tags), is_archived: false
insertedRow(id, newHabit) ==
  [id |-> id, name |-> newHabit.name,
   description |-> IF newHabit.description = <<>> THEN Null
                   ELSE Some(newHabit.description),
   tags |-> parseTags(newHabit.tags), is_archived |-> FALSE]

BackendInsertHabit(c, error) ==
  /\ c.fn = "insert" /\ c.pc = "sent"
  /\ error => faults
  /\ calls' = (calls (-) One(c)) (+) One(Reply(c, error, <<>>))
  /\ habitRows' = IF error THEN habitRows
                  ELSE <<insertedRow(Len(habitRows) + 1, c.payload.v)>> \o habitRows
  /\ lastEvent' = Event("backend", 0)
  /\ UNCHANGED <<viewVars, completions, actions, clockVars, statsVars,
                 capacity, faults, statsModal, location, register, authCallback, dialogs, evolve>>

\* after the insert: console.error, or setNewHabit({ name: '', ... }),
\* setShowAddHabit(false) and fetchHabits() of the render of the click
handleAddHabitResume(c) ==
  /\ c.fn = "insert" /\ c.pc = "replied"
  /\ IF c.error
       THEN /\ calls' = calls (-) One(c)
            /\ lastEvent' = Event("add failed", 0)
            /\ UNCHANGED <<loading, dialogs>>
       ELSE /\ calls' = (calls (-) One(c)) (+) One(fetchHabitsCall(c.archived))
            /\ loading' = TRUE
            /\ dialogs' = [dialogs EXCEPT !.showAddHabit = FALSE,
                                          !.newHabit = NoDialogs.newHabit]
            /\ lastEvent' = Event("add done", 0)
  /\ UNCHANGED <<habits, completedToday, showArchived, searchQuery, selectedTag,
                 completions, actions, clockVars, statsVars,
                 capacity, faults, statsModal, location, register, authCallback, evolve, habitRows>>

----------------------------------------------------------------------------
(* EvolveHabitModal (components/EvolveHabitModal.tsx) *)

\* the useState values of a modal just mounted
EvolveMounted == [newDescription |-> Empty, loading |-> FALSE, error |-> ""]

\* menu entry Evolve, rendered when !showArchived:
\* setSelectedHabit(habit); setShowEvolveModal(true)
openEvolve(k) ==
  /\ DashboardClickable
  /\ ~loading
  /\ ~showArchived
  /\ k \in 1..Len(filteredHabits)
  /\ actions < MaxActions
  /\ actions' = actions + 1
  /\ dialogs' = [dialogs EXCEPT !.showEvolveModal = TRUE,
                                !.selectedHabit = Some(filteredHabits[k])]
  /\ evolve' = EvolveMounted
  /\ lastEvent' = Event("open evolve", filteredHabits[k].id)
  /\ UNCHANGED <<viewVars, calls, completions, clockVars, statsVars,
                 capacity, faults, statsModal, location, register, authCallback, habitRows>>

\* onChange={e => setNewDescription(e.target.value)}
setNewDescription(d) ==
  /\ evolve # Null
  /\ d # evolve.newDescription
  /\ evolve' = [evolve EXCEPT !.newDescription = d]
  /\ lastEvent' = Event("type", 0)
  /\ UNCHANGED <<viewVars, calls, completions, actions, clockVars, statsVars,
                 capacity, faults, statsModal, location, register, authCallback, dialogs, habitRows>>

\* Cancel (disabled={loading}): onClose = setShowEvolveModal(false);
\* setSelectedHabit(null)
closeEvolve ==
  /\ evolve # Null
  /\ ~evolve.loading
  /\ evolve' = Null
  /\ dialogs' = [dialogs EXCEPT !.showEvolveModal = FALSE, !.selectedHabit = Null]
  /\ lastEvent' = Event("cancel evolve", 0)
  /\ UNCHANGED <<viewVars, calls, completions, actions, clockVars, statsVars,
                 capacity, faults, statsModal, location, register, authCallback, habitRows>>

descriptionIsBlank(e) == trim(e.newDescription) = <<>>

\* newDescription === habit.description
descriptionIsSame(e, habit) == habit.description = Some(e.newDescription)

evolveCall(habit, e) == CallWith("evolve_habit", habit.id, e.newDescription)

\* handleEvolve up to its await, the Evolve button never disabled
handleEvolveAlways ==
  /\ evolve # Null
  /\ actions < MaxActions
  /\ actions' = actions + 1
  /\ lastEvent' = Event("evolve", dialogs.selectedHabit.v.id)
  /\ IF descriptionIsBlank(evolve)
       THEN /\ evolve' = [evolve EXCEPT !.error = "Please enter a new description"]
            /\ calls' = calls
       ELSE IF descriptionIsSame(evolve, dialogs.selectedHabit.v)
         THEN /\ evolve' =
                   [evolve EXCEPT
                      !.error = "New description must be different from current"]
              /\ calls' = calls
         ELSE /\ Room(1)
              /\ evolve' = [evolve EXCEPT !.loading = TRUE, !.error = ""]
              /\ calls' = calls (+) One(evolveCall(dialogs.selectedHabit.v, evolve))
  /\ UNCHANGED <<viewVars, completions, clockVars, statsVars,
                 capacity, faults, statsModal, location, register, authCallback, dialogs, habitRows>>

\* handleEvolve up to its await; the Evolve button is disabled={loading}
handleEvolve ==
  /\ evolve # Null
  /\ ~evolve.loading
  /\ actions < MaxActions
  /\ actions' = actions + 1
  /\ lastEvent' = Event("evolve", dialogs.selectedHabit.v.id)
  /\ IF descriptionIsBlank(evolve)
       THEN /\ evolve' = [evolve EXCEPT !.error = "Please enter a new description"]
            /\ calls' = calls
       ELSE IF descriptionIsSame(evolve, dialogs.selectedHabit.v)
         THEN /\ evolve' =
                   [evolve EXCEPT
                      !.error = "New description must be different from current"]
              /\ calls' = calls
         ELSE /\ Room(1)
              /\ evolve' = [evolve EXCEPT !.loading = TRUE, !.error = ""]
              /\ calls' = calls (+) One(evolveCall(dialogs.selectedHabit.v, evolve))
  /\ UNCHANGED <<viewVars, completions, clockVars, statsVars,
                 capacity, faults, statsModal, location, register, authCallback, dialogs, habitRows>>

\* rpc evolve_habit(p_habit_id, p_new_description): the habit gets the new
\* description
BackendEvolveHabit(c, error) ==
  /\ c.fn = "evolve_habit" /\ c.pc = "sent"
  /\ error => faults
  /\ calls' = (calls (-) One(c)) (+) One(Reply(c, error, <<>>))
  /\ habitRows' = IF error THEN habitRows
                  ELSE [i \in 1..Len(habitRows) |->
                          IF habitRows[i].id = c.habitId
                            THEN [habitRows[i] EXCEPT !.description = c.payload]
                            ELSE habitRows[i]]
  /\ lastEvent' = Event("backend", 0)
  /\ UNCHANGED <<viewVars, completions, actions, clockVars, statsVars,
                 capacity, faults, statsModal, location, register, authCallback, dialogs, evolve>>

\* handleEvolve after its await: console.error and setError(...), or
\* onSuccess() (fetchHabits()) and onClose(); then setLoading(false)
handleEvolveResume(c) ==
  /\ c.fn = "evolve_habit" /\ c.pc = "replied"
  /\ IF c.error
       THEN /\ calls' = calls (-) One(c)
            /\ evolve' = [evolve EXCEPT
                            !.error = "Failed to evolve habit. Please try again.",
                            !.loading = FALSE]
            /\ lastEvent' = Event("evolve failed", c.habitId)
            /\ UNCHANGED <<loading, dialogs>>
       ELSE /\ calls' = (calls (-) One(c)) (+) One(fetchHabitsCall(c.archived))
            /\ loading' = TRUE
            /\ evolve' = Null
            /\ dialogs' = [dialogs EXCEPT !.showEvolveModal = FALSE,
                                          !.selectedHabit = Null]
            /\ lastEvent' = Event("evolve done", c.habitId)
  /\ UNCHANGED <<habits, completedToday, showArchived, searchQuery, selectedTag,
                 completions, actions, clockVars, statsVars,
                 capacity, faults, statsModal, location, register, authCallback, habitRows>>

----------------------------------------------------------------------------
(* AuthCallback (pages/AuthCallback.tsx) *)

Str_code == <<99, 48, 100, 101>>

\* the page just mounted on a link with the given code parameter
\* (params.get('code'): null when the link has none); useState(null) of
\* error; started once the effect has called handleCallback()
AuthCallbackMounted(code) == [code |-> code, error |-> Null, started |-> FALSE]

\* the parameter is there, empty or not
hasCodeParameter(code) == code # Null

\* if (code): null and '' are falsy
hasCode(code) == code # Null /\ code.v # Empty

exchangeCall(code) == CallWith("exchangeCodeForSession", 0, code.v)

\* err instanceof Error ? err.message : 'An error occurred during verification'
caughtMessage(reply) ==
  IF reply.isError THEN reply.message ELSE "An error occurred during verification"

\* the effect: handleCallback() up to its first await
handleCallback ==
  /\ location = "/auth/callback"
  /\ ~authCallback.started
  /\ IF hasCode(authCallback.code)
       THEN /\ Room(1)
            /\ calls' = calls (+) One(exchangeCall(authCallback.code))
            /\ authCallback' = [authCallback EXCEPT !.started = TRUE]
            /\ lastEvent' = Event("callback", 0)
       ELSE /\ calls' = calls
            /\ authCallback' =
                 [authCallback EXCEPT
                    !.started = TRUE,
                    !.error =
                      Some("No verification code found. Please check your email link.")]
            /\ lastEvent' = Event("callback failed", 0)
  /\ UNCHANGED <<viewVars, completions, actions, clockVars, statsVars,
                 capacity, faults, statsModal, location, register, dialogs, evolve, habitRows>>

\* what an await of the auth client gives: a result, a result with an error
\* (an AuthError, which is an Error), or a rejection with an Error or with
\* another value
ExchangeReplies ==
  { [failed |-> FALSE, isError |-> FALSE, message |-> "", session |-> FALSE],
    [failed |-> TRUE, isError |-> TRUE, message |-> "invalid request", session |-> FALSE],
    [failed |-> TRUE, isError |-> FALSE, message |-> "", session |-> FALSE] }

SessionReplies ==
  { [failed |-> FALSE, isError |-> FALSE, message |-> "", session |-> TRUE],
    [failed |-> FALSE, isError |-> FALSE, message |-> "", session |-> FALSE],
    [failed |-> TRUE, isError |-> TRUE, message |-> "Failed to fetch", session |-> FALSE] }

BackendExchangeCode(c, reply) ==
  /\ c.fn = "exchangeCodeForSession" /\ c.pc = "sent"
  /\ calls' = (calls (-) One(c)) (+) One(Reply(c, reply.failed, <<reply>>))
  /\ lastEvent' = Event("backend", 0)
  /\ UNCHANGED <<viewVars, completions, actions, clockVars, statsVars, otherVars>>

\* after the exchange: throw exchangeError into the catch, or go on to the
\* await of getSession()
handleCallbackGetSession(c) ==
  /\ c.fn = "exchangeCodeForSession" /\ c.pc = "replied"
  /\ IF c.error
       THEN /\ calls' = calls (-) One(c)
            /\ authCallback' =
                 [authCallback EXCEPT !.error = Some(caughtMessage(c.data[1]))]
            /\ lastEvent' = Event("callback failed", 0)
       ELSE /\ calls' = (calls (-) One(c))
                          (+) One([c EXCEPT !.fn = "getSession", !.pc = "sent"])
            /\ authCallback' = authCallback
            /\ lastEvent' = Event("getSession", 0)
  /\ UNCHANGED <<viewVars, completions, actions, clockVars, statsVars,
                 capacity, faults, statsModal, location, register, dialogs, evolve, habitRows>>

BackendGetSession(c, reply) ==
  /\ c.fn = "getSession" /\ c.pc = "sent"
  /\ calls' = (calls (-) One(c))
               (+) One(Reply(c, reply.failed, Append(c.data, reply)))
  /\ lastEvent' = Event("backend", 0)
  /\ UNCHANGED <<viewVars, completions, actions, clockVars, statsVars, otherVars>>

\* after getSession: navigate('/dashboard', { replace: true }) when there
\* is a session, setError otherwise; a rejection goes to the catch
handleCallbackResume(c) ==
  /\ c.fn = "getSession" /\ c.pc = "replied"
  /\ IF ~c.error /\ c.data[2].session
       THEN /\ Room(1)
            /\ authCallback' = Null
            /\ DashboardMount(calls (-) One(c))
       ELSE /\ calls' = calls (-) One(c)
            /\ authCallback' =
                 [authCallback EXCEPT
                    !.error =
                      Some(IF c.error THEN caughtMessage(c.data[2])
                           ELSE "Failed to create session. Please try signing in again.")]
            /\ lastEvent' = Event("callback failed", 0)
            /\ UNCHANGED <<viewVars, location, dialogs, evolve>>
  /\ UNCHANGED <<completions, actions, clockVars, statsVars,
                 capacity, faults, statsModal, register, habitRows>>

\* error ? the failure screen : the spinner
failureScreen == authCallback.error # Null /\ authCallback.error.v # ""

\* the link of the failure screen: <a href="/login">Go to Sign In</a>
GoToSignIn ==
  /\ location = "/auth/callback"
  /\ failureScreen
  /\ location' = "/login"
  /\ authCallback' = Null
  /\ lastEvent' = Event("go to sign in", 0)
  /\ UNCHANGED <<viewVars, calls, completions, actions, clockVars, statsVars,
                 capacity, faults, statsModal, register, dialogs, evolve, habitRows>>

----------------------------------------------------------------------------
(* Dashboard: the delete confirmation modal *)

\* menu entry Delete: setSelectedHabit(habit); setShowDeleteConfirm(true)
openDeleteConfirm(k) ==
  /\ DashboardClickable
  /\ ~loading
  /\ k \in 1..Len(filteredHabits)
  /\ dialogs' = [dialogs EXCEPT !.showDeleteConfirm = TRUE,
                                !.selectedHabit = Some(filteredHabits[k])]
  /\ lastEvent' = Event("open delete", filteredHabits[k].id)
  /\ UNCHANGED <<viewVars, calls, completions, actions, clockVars, statsVars, capacity,
                 faults, statsModal, location, register, authCallback, evolve, habitRows>>

\* the modal is rendered: showDeleteConfirm && selectedHabit
deleteConfirmShown ==
  location = "/dashboard" /\ dialogs.showDeleteConfirm /\ dialogs.selectedHabit # Null

\* Cancel: setShowDeleteConfirm(false); setSelectedHabit(null)
cancelDelete ==
  /\ deleteConfirmShown
  /\ dialogs' = [dialogs EXCEPT !.showDeleteConfirm = FALSE, !.selectedHabit = Null]
  /\ lastEvent' = Event("cancel delete", 0)
  /\ UNCHANGED <<viewVars, calls, completions, actions, clockVars, statsVars, capacity,
                 faults, statsModal, location, register, authCallback, evolve, habitRows>>

\* from('habits').delete().eq('id', selectedHabit.id)
deleteCall(habit) == Call("handleDeleteHabit", habit.id, Null, showArchived)

\* Delete Permanently: handleDeleteHabit up to its await
handleDeleteHabit ==
  /\ deleteConfirmShown
  /\ Room(1)
  /\ actions < MaxActions
  /\ actions' = actions + 1
  /\ calls' = calls (+) One(deleteCall(dialogs.selectedHabit.v))
  /\ lastEvent' = Event("delete", dialogs.selectedHabit.v.id)
  /\ UNCHANGED <<viewVars, completions, clockVars, statsVars, otherVars>>

\* the rows left when the row with the id is deleted
RECURSIVE withoutHabit(_, _)
withoutHabit(rows, habitId) ==
  IF rows = <<>> THEN <<>>
  ELSE (IF Head(rows).id = habitId THEN <<>> ELSE <<Head(rows)>>)
       \o withoutHabit(Tail(rows), habitId)

\* the delete executed: no error when no row has the id
BackendDeleteHabit(c, error) ==
  /\ c.fn = "handleDeleteHabit" /\ c.pc = "sent"
  /\ error => faults
  /\ calls' = (calls (-) One(c)) (+) One(Reply(c, error, <<>>))
  /\ habitRows' = IF error THEN habitRows ELSE withoutHabit(habitRows, c.habitId)
  /\ lastEvent' = Event("backend", 0)
  /\ UNCHANGED <<viewVars, completions, actions, clockVars, statsVars, capacity, faults,
                 statsModal, location, register, authCallback, dialogs, evolve>>

\* handleDeleteHabit after its await with fetchHabits() after the if
handleDeleteHabitResumeAlways(c) ==
  /\ c.fn = "handleDeleteHabit" /\ c.pc = "replied"
  /\ calls' = (calls (-) One(c)) (+) One(fetchHabitsCall(c.archived))
  /\ loading' = TRUE
  /\ dialogs' = IF c.error THEN dialogs
                ELSE [dialogs EXCEPT !.showDeleteConfirm = FALSE, !.selectedHabit = Null]
  /\ lastEvent' = Event(IF c.error THEN "delete failed" ELSE "delete done", c.habitId)
  /\ UNCHANGED <<habits, completedToday, showArchived, searchQuery, selectedTag,
                 completions, actions, clockVars, statsVars, capacity, faults, statsModal,
                 location, register, authCallback, evolve, habitRows>>

\* handleDeleteHabit after its await: console.error, or
\* setShowDeleteConfirm(false); setSelectedHabit(null); fetchHabits()
handleDeleteHabitResume(c) ==
  /\ c.fn = "handleDeleteHabit" /\ c.pc = "replied"
  /\ calls' = (calls (-) One(c)) (+) afterToggle(c)
  /\ loading' = (IF c.error THEN loading ELSE TRUE)
  /\ dialogs' = IF c.error THEN dialogs
                ELSE [dialogs EXCEPT !.showDeleteConfirm = FALSE, !.selectedHabit = Null]
  /\ lastEvent' = Event(IF c.error THEN "delete failed" ELSE "delete done", c.habitId)
  /\ UNCHANGED <<habits, completedToday, showArchived, searchQuery, selectedTag,
                 completions, actions, clockVars, statsVars, capacity, faults, statsModal,
                 location, register, authCallback, evolve, habitRows>>

----------------------------------------------------------------------------
(* StatsModal: mounting and its two fetches *)

\* useState(null) of stats, useState(true) of loading; instance tells the
\* mounted modal from the ones closed before it
StatsModalMounted(instance) == [stats |-> Null, loading |-> TRUE, instance |-> instance]

\* a lower bound one day after the day of the first cell
eightyEightDaysAgo == ISODate(setDate(tz, now, getDate(tz, now) - 88))

\* ninetyDaysAgo.setDate(ninetyDaysAgo.getDate() - 90), then
\* ninetyDaysAgo.toISOString().split('T')[0]
ninetyDaysAgo == ISODate(setDate(tz, now, getDate(tz, now) - 90))

\* fetchStats(), up to its await: rpc('get_habit_stats', {p_habit_id})
fetchStatsCall(habitId, instance) ==
  CallWith("fetchStats", habitId, [instance |-> instance, since |-> Empty])

\* fetchCompletions(), up to its await: select('date').eq('habit_id', habitId)
\* .gte('date', ninetyDaysAgo).order('date', { ascending: true })
fetchCompletionsCall(habitId, instance) ==
  CallWith("fetchCompletions", habitId, [instance |-> instance, since |-> ninetyDaysAgo])

\* menu entry View Stats: setSelectedHabit(habit); setShowStatsModal(true);
\* the modal mounts and its effect calls fetchStats() and fetchCompletions()
openStats(k) ==
  /\ DashboardClickable
  /\ ~loading
  /\ k \in 1..Len(filteredHabits)
  /\ Room(2)
  /\ actions < MaxActions
  /\ actions' = actions + 1
  /\ dialogs' = [dialogs EXCEPT !.showStatsModal = TRUE,
                                !.selectedHabit = Some(filteredHabits[k])]
  /\ statsModal' = StatsModalMounted(actions')
  /\ completionDates' = <<>>
  /\ days' = <<>>
  /\ calls' = calls (+) One(fetchStatsCall(filteredHabits[k].id, actions'))
                    (+) One(fetchCompletionsCall(filteredHabits[k].id, actions'))
  /\ lastEvent' = Event("open stats", filteredHabits[k].id)
  /\ UNCHANGED <<viewVars, completions, clockVars, capacity, faults, location,
                 register, authCallback, evolve, habitRows>>

\* the close button: onClose = setShowStatsModal(false); setSelectedHabit(null)
closeStats ==
  /\ location = "/dashboard"
  /\ statsModal # Null
  /\ statsModal' = Null
  /\ dialogs' = [dialogs EXCEPT !.showStatsModal = FALSE, !.selectedHabit = Null]
  /\ completionDates' = <<>>
  /\ days' = <<>>
  /\ lastEvent' = Event("close stats", 0)
  /\ UNCHANGED <<viewVars, calls, completions, actions, clockVars, capacity, faults,
                 location, register, authCallback, evolve, habitRows>>

\* the dates of the habit's completion rows
datesOf(habitId) == {r.date : r \in {q \in completions : q.habit_id = habitId}}

\* the dates not before since, in ascending order
RECURSIVE selectDates(_, _)
selectDates(dates, since) ==
  IF dates = {} THEN <<>>
  ELSE LET least == CHOOSE d \in dates : \A e \in dates : ~StrLess(e, d)
       IN (IF StrLess(least, since) THEN <<>> ELSE <<[date |-> least]>>)
          \o selectDates(dates \ {least}, since)

\* rpc get_habit_stats: the current streak and the number of completions
get_habit_stats(habitId) ==
  [current_streak |-> get_current_streak(habitId),
   total_completions |-> Cardinality(datesOf(habitId))]

BackendGetHabitStats(c, error) ==
  /\ c.fn = "fetchStats" /\ c.pc = "sent"
  /\ error => faults
  /\ calls' = (calls (-) One(c))
               (+) One(Reply(c, error,
                             IF error THEN <<>> ELSE <<get_habit_stats(c.habitId)>>))
  /\ lastEvent' = Event("backend", 0)
  /\ UNCHANGED <<viewVars, completions, actions, clockVars, statsVars, otherVars>>

BackendSelectCompletionDates(c, error) ==
  /\ c.fn = "fetchCompletions" /\ c.pc = "sent"
  /\ error => faults
  /\ calls' = (calls (-) One(c))
               (+) One(Reply(c, error,
                             IF error THEN <<>>
                             ELSE selectDates(datesOf(c.habitId), c.payload.v.since)))
  /\ lastEvent' = Event("backend", 0)
  /\ UNCHANGED <<viewVars, completions, actions, clockVars, statsVars, otherVars>>

\* the modal that sent the request is still the one mounted (a state setter
\* of an unmounted component does nothing)
stillMounted(c) == statsModal # Null /\ statsModal.instance = c.payload.v.instance

\* fetchStats after its await: console.error or setStats(data); then
\* setLoading(false)
fetchStatsResume(c) ==
  /\ c.fn = "fetchStats" /\ c.pc = "replied"
  /\ calls' = calls (-) One(c)
  /\ statsModal' = IF ~stillMounted(c) THEN statsModal
                   ELSE [statsModal EXCEPT
                           !.stats = IF c.error THEN statsModal.stats ELSE Some(c.data[1]),
                           !.loading = FALSE]
  /\ lastEvent' = Event(IF c.error THEN "fetchStats failed" ELSE "fetchStats done",
                        c.habitId)
  /\ UNCHANGED <<viewVars, completions, actions, clockVars, statsVars, capacity, faults,
                 location, register, authCallback, dialogs, evolve, habitRows>>

\* fetchCompletions after its await: console.error, or
\* setCompletionDates(data?.map(c => c.date) || [])
fetchCompletionsResume(c) ==
  /\ c.fn = "fetchCompletions" /\ c.pc = "replied"
  /\ calls' = calls (-) One(c)
  /\ completionDates' = IF ~stillMounted(c) \/ c.error THEN completionDates
                        ELSE [i \in 1..Len(c.data) |-> c.data[i].date]
  /\ lastEvent' = Event(IF c.error THEN "fetchCompletions failed"
                                    ELSE "fetchCompletions done", c.habitId)
  /\ UNCHANGED <<viewVars, completions, actions, clockVars, days, otherVars>>

\* loading ? 'Loading statistics...' : stats ? the statistics with the
\* calendar : 'Failed to load statistics'
calendarShown == statsModal # Null /\ ~statsModal.loading /\ statsModal.stats # Null

----------------------------------------------------------------------------
(* What the pages render *)

\* Dashboard, the region of the list: loading ? 'Loading habits...'
\* : filteredHabits.length === 0
\*   ? (searchQuery || selectedTag ? 'No matching habits' : 'No habits yet')
\*   : the cards
listRegion ==
  IF loading THEN "Loading habits..."
  ELSE IF Len(filteredHabits) = 0
    THEN (IF searchQuery # Empty \/ (selectedTag # Null /\ selectedTag.v # Empty)
            THEN "No matching habits" ELSE "No habits yet")
    ELSE "cards"

\* the error texts on screen: {error && <div>{error}</div>} of Register and
\* of EvolveHabitModal; the Dashboard has no such element
errorsShown ==
  (IF location = "/register" /\ register.error # "" THEN {register.error} ELSE {})
    \cup (IF location = "/dashboard" /\ evolve # Null /\ evolve.error # ""
            THEN {evolve.error} ELSE {})

----------------------------------------------------------------------------
(* Specifications *)

\* the route is /dashboard, no dialog of the Dashboard is open, and the
\* table habits holds its first rows
DashboardShown ==
  /\ location = "/dashboard"
  /\ register = Null
  /\ authCallback = Null
  /\ dialogs = NoDialogs
  /\ evolve = Null
  /\ statsModal = Null
  /\ habitRows = habitsTable

\* queries typed into the search box
Queries == {Empty, Str_un}

\* the clock of the Dashboard runs: 2024-03-10T12:00Z
Noon == TimeOf(2024, 3, 10, 12)

\* The Dashboard after its first render and effect: fetchHabits() and
\* fetchTodayCompletions() are in flight; every habit was completed
\* yesterday, and habits 1 and 3 (an archived one) today
Init ==
  /\ habits = <<>>
  /\ completedToday = {}
  /\ loading = TRUE
  /\ showArchived = FALSE
  /\ searchQuery = Empty
  /\ selectedTag = Null
  /\ now = Noon
  /\ tz = UTC
  /\ calls = One(fetchHabitsCall(FALSE)) (+) One(fetchTodayCompletionsCall)
  /\ completions = {Completion(h, yesterday) : h \in HabitIds}
                     \cup {Completion(h, today) : h \in {1, 3}}
  /\ lastEvent = Event("mount", 0)
  /\ actions = 0
  /\ completionDates = <<>>
  /\ days = <<>>
  /\ capacity = MaxCalls
  /\ faults = TRUE
  /\ DashboardShown

Next ==
  \/ ToggleShowArchived
  \/ \E q \in Queries : SetSearchQuery(q)
  \/ \E t \in {Empty, Str_x} : SetSelectedTag(t)
  \/ \E k \in 1..Len(habitsTable) : ClickComplete(k)
  \/ \E c \in InFlight, error \in BOOLEAN : BackendSelectHabits(c, error)
  \/ \E c \in InFlight, i \in 1..Len(habitsTable), error \in BOOLEAN :
       BackendGetCurrentStreak(c, i, error)
  \/ \E c \in InFlight, error \in BOOLEAN : BackendSelectTodayCompletions(c, error)
  \/ \E c \in InFlight, error \in BOOLEAN : BackendCompleteHabit(c, error)
  \/ \E c \in InFlight, error \in BOOLEAN : BackendDeleteCompletion(c, error)
  \/ \E c \in InFlight : fetchHabitsResume(c)
  \/ \E c \in InFlight : fetchTodayCompletionsResume(c)
  \/ \E c \in InFlight : handleCompleteHabitResume(c)
  \/ \E c \in InFlight : handleUncompleteHabitResume(c)

Spec == Init /\ [][Next]_vars

\* The same Dashboard with room for one more invocation in flight: a view
\* switch while a request of an earlier handler has not been answered
InitRace ==
  /\ habits = <<>>
  /\ completedToday = {}
  /\ loading = TRUE
  /\ showArchived = FALSE
  /\ searchQuery = Empty
  /\ selectedTag = Null
  /\ now = Noon
  /\ tz = UTC
  /\ calls = One(fetchHabitsCall(FALSE)) (+) One(fetchTodayCompletionsCall)
  /\ completions = {Completion(h, yesterday) : h \in HabitIds}
                     \cup {Completion(h, today) : h \in {1, 3}}
  /\ lastEvent = Event("mount", 0)
  /\ actions = 0
  /\ completionDates = <<>>
  /\ days = <<>>
  /\ capacity = MaxCalls + 1
  /\ faults = TRUE
  /\ DashboardShown

SpecRace == InitRace /\ [][Next]_vars

\* The same Dashboard with a backend that answers every request without an
\* error
InitReliable ==
  /\ habits = <<>>
  /\ completedToday = {}
  /\ loading = TRUE
  /\ showArchived = FALSE
  /\ searchQuery = Empty
  /\ selectedTag = Null
  /\ now = Noon
  /\ tz = UTC
  /\ calls = One(fetchHabitsCall(FALSE)) (+) One(fetchTodayCompletionsCall)
  /\ completions = {Completion(h, yesterday) : h \in HabitIds}
                     \cup {Completion(h, today) : h \in {1, 3}}
  /\ lastEvent = Event("mount", 0)
  /\ actions = 0
  /\ completionDates = <<>>
  /\ days = <<>>
  /\ capacity = MaxCalls
  /\ faults = FALSE
  /\ DashboardShown

SpecReliable == InitReliable /\ [][Next]_vars

\* The pages with forms: a visitor on /register, or a signed-in user on a
\* Dashboard just mounted, filling in the forms and sending them; the
\* requests for habits are answered without an error in SpecForms, with or
\* without one in SpecFormsFaults
Emails == {Empty, Str_email}
Passwords == {Empty, Str_12345, Str_123456, Str_abcdef}
Names == {Empty, Str_blank, Str_Walk}
TagTexts == {Empty, Str_x_y}
Descriptions == {Empty, Str_blank, Str_re, Str_un}

FormsMounted ==
  /\ habits = <<>>
  /\ completedToday = {}
  /\ loading = TRUE
  /\ showArchived = FALSE
  /\ searchQuery = Empty
  /\ selectedTag = Null
  /\ now = Noon
  /\ tz = UTC
  /\ completions = {Completion(h, yesterday) : h \in HabitIds}
                     \cup {Completion(h, today) : h \in {1, 3}}
  /\ lastEvent = Event("mount", 0)
  /\ actions = 0
  /\ completionDates = <<>>
  /\ days = <<>>
  /\ capacity = MaxCalls
  /\ authCallback = Null
  /\ dialogs = NoDialogs
  /\ evolve = Null
  /\ statsModal = Null
  /\ habitRows = habitsTable
  /\ \/ /\ location = "/register"
        /\ register = RegisterMounted
        /\ calls = EmptyBag
     \/ /\ location = "/dashboard"
        /\ register = Null
        /\ calls = One(fetchHabitsCall(FALSE)) (+) One(fetchTodayCompletionsCall)

NextForms ==
  \/ \E e \in Emails : setEmail(e)
  \/ \E p \in Passwords : setPassword(p)
  \/ \E p \in Passwords : setConfirmPassword(p)
  \/ handleSubmit
  \/ \E c \in InFlight, reply \in SignUpReplies : BackendSignUp(c, reply)
  \/ \E c \in InFlight : handleSubmitResume(c)
  \/ RegisterTimeout
  \/ openAddHabit
  \/ \E n \in Names : setNewHabitName(n)
  \/ \E t \in TagTexts : setNewHabitTags(t)
  \/ cancelAddHabit
  \/ handleAddHabit
  \/ \E c \in InFlight, user \in BOOLEAN : BackendGetUser(c, user)
  \/ \E c \in InFlight : handleAddHabitInsert(c)
  \/ \E c \in InFlight, error \in BOOLEAN : BackendInsertHabit(c, error)
  \/ \E c \in InFlight : handleAddHabitResume(c)
  \/ \E k \in 1..Len(habitRows) : openEvolve(k)
  \/ \E d \in Descriptions : setNewDescription(d)
  \/ closeEvolve
  \/ handleEvolve
  \/ \E c \in InFlight, error \in BOOLEAN : BackendEvolveHabit(c, error)
  \/ \E c \in InFlight : handleEvolveResume(c)
  \/ \E c \in InFlight, error \in BOOLEAN : BackendSelectHabits(c, error)
  \/ \E c \in InFlight, i \in 1..Len(habitRows), error \in BOOLEAN :
       BackendGetCurrentStreak(c, i, error)
  \/ \E c \in InFlight, error \in BOOLEAN : BackendSelectTodayCompletions(c, error)
  \/ \E c \in InFlight : fetchHabitsResume(c)
  \/ \E c \in InFlight : fetchTodayCompletionsResume(c)

InitForms == FormsMounted /\ faults = FALSE

SpecForms == InitForms /\ [][NextForms]_vars

InitFormsFaults == FormsMounted /\ faults = TRUE

SpecFormsFaults == InitFormsFaults /\ [][NextForms]_vars

\* A visitor opens the link of the verification e-mail: without a code
\* parameter, with an empty one, or with a code
Codes == {Null, Some(Empty), Some(Str_code)}

InitCallback ==
  /\ habits = <<>>
  /\ completedToday = {}
  /\ loading = TRUE
  /\ showArchived = FALSE
  /\ searchQuery = Empty
  /\ selectedTag = Null
  /\ now = Noon
  /\ tz = UTC
  /\ calls = EmptyBag
  /\ completions = {Completion(h, yesterday) : h \in HabitIds}
                     \cup {Completion(h, today) : h \in {1, 3}}
  /\ lastEvent = Event("mount", 0)
  /\ actions = 0
  /\ completionDates = <<>>
  /\ days = <<>>
  /\ capacity = MaxCalls
  /\ faults = TRUE
  /\ location = "/auth/callback"
  /\ register = Null
  /\ \E code \in Codes : authCallback = AuthCallbackMounted(code)
  /\ dialogs = NoDialogs
  /\ evolve = Null
  /\ statsModal = Null
  /\ habitRows = habitsTable

NextCallback ==
  \/ handleCallback
  \/ \E c \in InFlight, reply \in ExchangeReplies : BackendExchangeCode(c, reply)
  \/ \E c \in InFlight : handleCallbackGetSession(c)
  \/ \E c \in InFlight, reply \in SessionReplies : BackendGetSession(c, reply)
  \/ \E c \in InFlight : handleCallbackResume(c)
  \/ GoToSignIn
  \/ ToggleShowArchived
  \/ \E c \in InFlight, error \in BOOLEAN : BackendSelectHabits(c, error)
  \/ \E c \in InFlight, i \in 1..Len(habitRows), error \in BOOLEAN :
       BackendGetCurrentStreak(c, i, error)
  \/ \E c \in InFlight, error \in BOOLEAN : BackendSelectTodayCompletions(c, error)
  \/ \E c \in InFlight : fetchHabitsResume(c)
  \/ \E c \in InFlight : fetchTodayCompletionsResume(c)

SpecCallback == InitCallback /\ [][NextCallback]_vars

\* no request is in flight and the StatsModal is closed
Idle ==
  /\ calls = EmptyBag
  /\ capacity = MaxCalls
  /\ faults = TRUE
  /\ DashboardShown
  /\ completions = {}
  /\ actions = 0
  /\ completionDates = <<>>
  /\ days = <<>>

\* The derived view.  Init: the Dashboard shows a list it has fetched, any
\* list of up to MaxHabits habits (ids in list order) or one of LongList
\* habits, with any completed-today set; the user then changes the filters.
ViewNames == {Str_Read, Str_bREAd}
ViewTags ==
  {Null, Some(<<Str_x>>), Some(<<Str_y, Empty, Str_x, Str_y>>), Some(<<Str_xy, Str_X>>)}
ViewQueries == {Empty, Str_RE, Str_br, Str_q}

ViewLists ==
  UNION {[1..n -> ViewNames \X ViewTags] : n \in 0..MaxHabits}

ViewHabit(id, name, tags) ==
  [id |-> id, name |-> name, description |-> Null, tags |-> tags,
   is_archived |-> FALSE, currentStreak |-> 0]

InitView ==
  /\ \/ \E l \in ViewLists, done \in {{}, {1}, {2}, {1, MaxHabits + 1}} :
          /\ habits = [i \in 1..Len(l) |-> ViewHabit(i, l[i][1], l[i][2])]
          /\ completedToday = done
     \/ \E k \in 0..LongList :
          /\ habits = [i \in 1..LongList |-> ViewHabit(i, Str_Run, Null)]
          /\ completedToday = 1..k
  /\ loading = FALSE
  /\ showArchived = FALSE
  /\ searchQuery = Empty
  /\ selectedTag = Null
  /\ lastEvent = Event("fetchHabits done", 0)
  /\ now = Noon
  /\ tz = UTC
  /\ Idle

NextView ==
  \/ \E q \in ViewQueries : SetSearchQuery(q)
  \/ \E t \in {Empty, Str_x, Str_y, Str_X, Str_xy} : SetSelectedTag(t)

SpecView == InitView /\ [][NextView]_vars

\* The calendar heatmap.  Init: the StatsModal is open at any of these
\* clock times in any of these time zones, with completion dates fetched
\* from the days around the window; the modal body is then rendered.
Zones == {UTC, AsiaTokyo, EuropeMadrid, AmericaNewYork}
ClockDays ==
  {TimeOf(2024, 1, 15, 0), TimeOf(2024, 3, 10, 0), TimeOf(2024, 3, 31, 0),
   TimeOf(2024, 4, 1, 0), TimeOf(2024, 7, 1, 0), TimeOf(2024, 10, 27, 0),
   TimeOf(2024, 11, 3, 0), TimeOf(2024, 12, 31, 0)}
ClockHours == {0, 1, 2, 3, 12, 21, 22, 23}

\* completion dates in ascending order, some of the days offsets before now
DatesAround(t, offsets) ==
  LET pick(k) == IF k \in offsets THEN <<ISODate(t - k * HoursPerDay)>> ELSE <<>>
  IN pick(90) \o pick(89) \o pick(1) \o pick(0)

InitCalendar ==
  /\ \E d \in ClockDays, h \in ClockHours : now = d + h
  /\ tz \in Zones
  /\ \E offsets \in {{}, {0, 1}, {89, 90}, {0, 89}} :
       completionDates = DatesAround(now, offsets)
  /\ days = <<>>
  /\ habits = <<>>
  /\ completedToday = {}
  /\ loading = TRUE
  /\ showArchived = FALSE
  /\ searchQuery = Empty
  /\ selectedTag = Null
  /\ lastEvent = Event("mount", 0)
  /\ calls = EmptyBag
  /\ completions = {}
  /\ actions = 0
  /\ capacity = MaxCalls
  /\ faults = TRUE
  /\ DashboardShown

NextCalendar == RenderCalendar

SpecCalendar == InitCalendar /\ [][NextCalendar]_vars

\* The StatsModal as the Dashboard opens it.  Init: the Dashboard shows the
\* active habits it has fetched, at one of two clock times (the window
\* crosses a daylight-saving change) east or west of UTC; habit 1 has
\* completions on some of the days around the window.  The user opens the statistics of a habit, the two fetches run,
\* the body is rendered, the user closes the modal.
StatsOffsets == {{0, 89}, {0, 1, 89, 90}}

RECURSIVE asSet(_)
asSet(list) == IF list = <<>> THEN {} ELSE {Head(list)} \cup asSet(Tail(list))

fetchedHabits(flag) ==
  LET rows == selectHabits(habitsTable, flag)
  IN [i \in 1..Len(rows) |->
        habitWithStreak([habit |-> rows[i].habit,
                         rpc |-> <<Some(get_current_streak(rows[i].habit.id))>>])]

InitStats ==
  /\ now \in {TimeOf(2024, 1, 15, 3), TimeOf(2024, 3, 10, 23)}
  /\ tz \in {AsiaTokyo, AmericaNewYork}
  /\ \E offsets \in StatsOffsets :
       completions = {Completion(1, date) : date \in asSet(DatesAround(now, offsets))}
                       \cup {Completion(2, date) :
                               date \in asSet(DatesAround(now - 91 * HoursPerDay, {0, 1}))}
  /\ habits = fetchedHabits(FALSE)
  /\ completedToday = {r.habit_id : r \in {q \in completions : q.date = today}}
  /\ loading = FALSE
  /\ showArchived = FALSE
  /\ searchQuery = Empty
  /\ selectedTag = Null
  /\ lastEvent = Event("fetchHabits done", 0)
  /\ calls = EmptyBag
  /\ actions = 0
  /\ completionDates = <<>>
  /\ days = <<>>
  /\ capacity = MaxCalls
  /\ faults = FALSE
  /\ DashboardShown

\* the statistics are on screen and the body is rendered
RenderStats == calendarShown /\ RenderCalendar

NextStats ==
  \/ \E k \in 1..MaxHabits : openStats(k)
  \/ \E c \in InFlight, error \in BOOLEAN : BackendGetHabitStats(c, error)
  \/ \E c \in InFlight, error \in BOOLEAN : BackendSelectCompletionDates(c, error)
  \/ \E c \in InFlight : fetchStatsResume(c)
  \/ \E c \in InFlight : fetchCompletionsResume(c)
  \/ RenderStats
  \/ closeStats

SpecStats == InitStats /\ [][NextStats]_vars

\* The EvolveHabitModal.  Init: the Dashboard shows the active habits it has
\* fetched and the user has just opened the modal on one of them; the user
\* types, clicks Evolve and Cancel, the backend answers with or without an
\* error, a success re-fetches the list.
InitEvolve ==
  /\ now = Noon
  /\ tz = UTC
  /\ completions = {Completion(h, yesterday) : h \in HabitIds}
                     \cup {Completion(h, today) : h \in {1, 3}}
  /\ habits = fetchedHabits(FALSE)
  /\ completedToday = {1, 3}
  /\ loading = FALSE
  /\ showArchived = FALSE
  /\ searchQuery = Empty
  /\ selectedTag = Null
  /\ calls = EmptyBag
  /\ actions = 0
  /\ completionDates = <<>>
  /\ days = <<>>
  /\ capacity = MaxCalls
  /\ faults = TRUE
  /\ location = "/dashboard"
  /\ register = Null
  /\ authCallback = Null
  /\ statsModal = Null
  /\ habitRows = habitsTable
  /\ \E k \in 1..Len(habits) :
       /\ dialogs = [NoDialogs EXCEPT !.showEvolveModal = TRUE,
                                      !.selectedHabit = Some(habits[k])]
       /\ lastEvent = Event("open evolve", habits[k].id)
  /\ evolve = EvolveMounted

NextEvolve ==
  \/ \E d \in Descriptions : setNewDescription(d)
  \/ closeEvolve
  \/ handleEvolve
  \/ \E c \in InFlight, error \in BOOLEAN : BackendEvolveHabit(c, error)
  \/ \E c \in InFlight : handleEvolveResume(c)
  \/ \E c \in InFlight, error \in BOOLEAN : BackendSelectHabits(c, error)
  \/ \E c \in InFlight, i \in 1..Len(habitRows), error \in BOOLEAN :
       BackendGetCurrentStreak(c, i, error)
  \/ \E c \in InFlight : fetchHabitsResume(c)

SpecEvolve == InitEvolve /\ [][NextEvolve]_vars

\* Deleting a habit.  Init: the Dashboard shows the list of one of the two
\* views as fetched; the user opens the confirmation modal from a habit's
\* menu, confirms or cancels, the backend answers with or without an
\* error, a success re-fetches the list.
InitDelete ==
  /\ now = Noon
  /\ tz = UTC
  /\ completions = {Completion(h, yesterday) : h \in HabitIds}
                     \cup {Completion(h, today) : h \in {1, 3}}
  /\ showArchived \in BOOLEAN
  /\ habits = fetchedHabits(showArchived)
  /\ completedToday = {1, 3}
  /\ loading = FALSE
  /\ searchQuery = Empty
  /\ selectedTag = Null
  /\ lastEvent = Event("fetchHabits done", 0)
  /\ calls = EmptyBag
  /\ actions = 0
  /\ completionDates = <<>>
  /\ days = <<>>
  /\ capacity = MaxCalls
  /\ faults = TRUE
  /\ DashboardShown

NextDelete ==
  \/ \E k \in 1..MaxHabits : openDeleteConfirm(k)
  \/ cancelDelete
  \/ handleDeleteHabit
  \/ \E c \in InFlight, error \in BOOLEAN : BackendDeleteHabit(c, error)
  \/ \E c \in InFlight : handleDeleteHabitResume(c)
  \/ \E c \in InFlight, error \in BOOLEAN : BackendSelectHabits(c, error)
  \/ \E c \in InFlight, i \in 1..Len(habitRows), error \in BOOLEAN :
       BackendGetCurrentStreak(c, i, error)
  \/ \E c \in InFlight : fetchHabitsResume(c)

SpecDelete == InitDelete /\ [][NextDelete]_vars

\* Creating a habit.  Init: the Dashboard shows the active habits it has
\* fetched and the create-habit dialog is open and empty; the user types a
\* name and tags, clicks Create or Cancel, getUser answers with or without
\* a user, the insert with or without an error, a success starts the
\* re-fetch of the list (which stays in flight here).
InitCreate ==
  /\ now = Noon
  /\ tz = UTC
  /\ completions = {Completion(h, yesterday) : h \in HabitIds}
                     \cup {Completion(h, today) : h \in {1, 3}}
  /\ showArchived = FALSE
  /\ habits = fetchedHabits(showArchived)
  /\ completedToday = {1, 3}
  /\ loading = FALSE
  /\ searchQuery = Empty
  /\ selectedTag = Null
  /\ lastEvent = Event("open add", 0)
  /\ calls = EmptyBag
  /\ actions = 0
  /\ completionDates = <<>>
  /\ days = <<>>
  /\ capacity = MaxCalls
  /\ faults = TRUE
  /\ location = "/dashboard"
  /\ register = Null
  /\ authCallback = Null
  /\ dialogs = [NoDialogs EXCEPT !.showAddHabit = TRUE]
  /\ evolve = Null
  /\ statsModal = Null
  /\ habitRows = habitsTable

NextCreate ==
  \/ openAddHabit
  \/ \E n \in Names : setNewHabitName(n)
  \/ \E t \in TagTexts : setNewHabitTags(t)
  \/ cancelAddHabit
  \/ handleAddHabit
  \/ \E c \in InFlight, user \in BOOLEAN : BackendGetUser(c, user)
  \/ \E c \in InFlight : handleAddHabitInsert(c)
  \/ \E c \in InFlight, error \in BOOLEAN : BackendInsertHabit(c, error)
  \/ \E c \in InFlight : handleAddHabitResume(c)

SpecCreate == InitCreate /\ [][NextCreate]_vars

\* parseTags on the way to the table.  Init: the create-habit dialog is open
\* with the name Walk and any tags text of up to MaxTagText code units made
\* of the letter x, the comma, the space and the tab; the user clicks
\* Create and the insert stores the parsed tags.
TagUnits == {120, 44, 32, 9}
TagInputs == UNION {[1..n -> TagUnits] : n \in 0..MaxTagText}

InitTags ==
  /\ now = Noon
  /\ tz = UTC
  /\ completions = {}
  /\ showArchived = FALSE
  /\ habits = fetchedHabits(showArchived)
  /\ completedToday = {}
  /\ loading = FALSE
  /\ searchQuery = Empty
  /\ selectedTag = Null
  /\ lastEvent = Event("type", 0)
  /\ calls = EmptyBag
  /\ actions = 0
  /\ completionDates = <<>>
  /\ days = <<>>
  /\ capacity = MaxCalls
  /\ faults = FALSE
  /\ location = "/dashboard"
  /\ register = Null
  /\ authCallback = Null
  /\ \E t \in TagInputs :
       dialogs = [NoDialogs EXCEPT !.showAddHabit = TRUE, !.newHabit.name = Str_Walk,
                                   !.newHabit.tags = t]
  /\ evolve = Null
  /\ statsModal = Null
  /\ habitRows = habitsTable

NextTags ==
  \/ handleAddHabit
  \/ \E c \in InFlight, user \in BOOLEAN : BackendGetUser(c, user)
  \/ \E c \in InFlight : handleAddHabitInsert(c)
  \/ \E c \in InFlight, error \in BOOLEAN : BackendInsertHabit(c, error)
  \/ \E c \in InFlight : handleAddHabitResume(c)

SpecTags == InitTags /\ [][NextTags]_vars

----------------------------------------------------------------------------
(* Properties *)

\* q occurs in s: s is some prefix, then q, then some suffix
Contains(s, q) ==
  \E a \in 0..Len(s), b \in 0..Len(s) :
    a + Len(q) = b /\ SubSeq(s, a + 1, b) = q

\* the name, lower-cased, contains the query, lower-cased
NameMatches(h, q) ==
  Contains([i \in 1..Len(h.name) |-> IF h.name[i] \in 65..90 THEN h.name[i] + 32
                                                           ELSE h.name[i]],
           [i \in 1..Len(q) |-> IF q[i] \in 65..90 THEN q[i] + 32 ELSE q[i]])

\* the tag list of the habit holds the tag; a null list holds nothing
HasTag(h, t) == h.tags # Null /\ t \in {h.tags.v[i] : i \in 1..Len(h.tags.v)}

\* the subsequence of list at the positions in the set idx, in list order
PickAt(list, idx) ==
  [k \in 1..Cardinality(idx) |->
     list[CHOOSE i \in idx : Cardinality({j \in idx : j <= i}) = k]]

\* C1: the filtered list is the subsequence of the habit list, in its order,
\* of the habits whose lower-cased name contains the lower-cased query and
\* which, when a tag is selected, carry that tag in their tag list (a habit
\* with a null tag list never does)
C1_FilteredIsMatchingSubsequence ==
  filteredHabits =
    PickAt(habits, {i \in 1..Len(habits) :
                      /\ NameMatches(habits[i], searchQuery)
                      /\ selectedTag = Null \/ HasTag(habits[i], selectedTag.v)})

\* C1 witness: a tag is selected and a non-empty query typed; some habit is
\* kept, a habit after a dropped one is kept, and a habit with a null tag
\* list is dropped although its name matches
C1_Witness ==
  /\ selectedTag # Null /\ searchQuery # Empty
  /\ Len(filteredHabits) = 1 /\ Len(habits) = 2
  /\ filteredHabits[1] = habits[2]
  /\ habits[1].tags = Null /\ NameMatches(habits[1], searchQuery)

\* C2: the empty query and the absent tag are neutral: with the empty query
\* the filtered list is the habits that pass the tag filter, with no tag
\* selected it is the habits that pass the query filter, and with both it
\* is the habit list itself
C2_EmptyFiltersAreNeutral ==
  /\ searchQuery = Empty =>
       filteredHabits =
         PickAt(habits, {i \in 1..Len(habits) :
                           selectedTag = Null \/ HasTag(habits[i], selectedTag.v)})
  /\ selectedTag = Null =>
       filteredHabits =
         PickAt(habits, {i \in 1..Len(habits) : NameMatches(habits[i], searchQuery)})
  /\ (searchQuery = Empty /\ selectedTag = Null) => filteredHabits = habits

\* C2 witness: nothing is filtered and the list of two habits is shown whole
C2_Witness ==
  /\ searchQuery = Empty /\ selectedTag = Null
  /\ Len(habits) = 2 /\ filteredHabits = habits
  /\ actions > 0

\* code-unit order of strings: at the first position where they differ a
\* is smaller, or a is a proper prefix of b
Before(a, b) ==
  \E k \in 1..(Len(b)) :
    /\ k <= Len(a) + 1
    /\ \A i \in 1..(k - 1) : a[i] = b[i]
    /\ k = Len(a) + 1 \/ a[k] < b[k]

\* the non-empty tags that occur in the tag list of some habit of the list
TagsPresent(hs) ==
  {t \in UNION {{hs[i].tags.v[j] : j \in 1..Len(hs[i].tags.v)} :
                 i \in {i \in 1..Len(hs) : hs[i].tags # Null}} : t # Empty}

Reverse(list) == [i \in 1..Len(list) |-> list[Len(list) + 1 - i]]

\* C3: allTags holds exactly the non-empty tags present in some tag list,
\* each once, in ascending code-unit order; so it is the same for the
\* reversed habit list, and aggregating a habit that carries allTags as its
\* tag list gives allTags again
C3_AllTagsSortedUnique ==
  /\ {allTags[i] : i \in 1..Len(allTags)} = TagsPresent(habits)
  /\ \A i \in 1..(Len(allTags) - 1) : Before(allTags[i], allTags[i + 1])
  /\ allTagsOf(Reverse(habits)) = allTags
  /\ allTagsOf(<<ViewHabit(1, Empty, Some(allTags))>>) = allTags

\* C3 witness: tag lists with a repeated tag and an empty tag together give
\* four tags, upper case before lower case, and the user has picked the
\* third of them in the tag select that allTags fills
C3_Witness ==
  /\ selectedTag = Some(Str_xy)
  /\ Len(habits) = 2
  /\ habits[1].tags = Some(<<Str_y, Empty, Str_x, Str_y>>)
  /\ habits[2].tags = Some(<<Str_xy, Str_X>>)
  /\ allTags = <<Str_X, Str_x, Str_xy, Str_y>>

\* C4: the summary shows total = length of the filtered list, completedCount
\* = number of filtered habits whose id is in the completed-today set, and
\* rate = completedCount / total * 100 rounded half up, 0 when total = 0;
\* a list of two habits with one of them completed shows 2, 1 and 50
C4_SummaryRoundsHalfUp ==
  LET F == filteredHabits
      total == Len(F)
      completedCount == Cardinality({i \in 1..Len(F) : F[i].id \in completedToday})
  IN /\ totalHabits = total
     /\ completedTodayCount = completedCount
     /\ rate = (IF total > 0 THEN (200 * completedCount + total) \div (2 * total)
                             ELSE 0)
     /\ (total = 2 /\ completedCount = 1) => rate = 50

\* C5: in every state of the Dashboard completedCount <= total, rate is an
\* integer from 0 to 100, and rate = 0 whenever total = 0, also when the
\* completed-today set holds ids that are not in the habit list
C5_CountAndRateInRange ==
  /\ completedTodayCount <= totalHabits
  /\ rate \in 0..100
  /\ totalHabits = 0 => rate = 0

\* C5 witness: after a completion toggle the completed-today set holds the
\* id of an archived habit, which the active list does not show, next to a
\* listed one, and the query hides one of the two listed habits
C5_Witness ==
  /\ lastEvent.step = "complete done"
  /\ 3 \in completedToday
  /\ \A i \in 1..Len(habits) : habits[i].id # 3
  /\ Len(habits) = 2 /\ totalHabits = 1 /\ completedTodayCount = 1
  /\ rate = 100

\* C6: the heatmap has exactly 90 cells, oldest first, and cell i (from 0)
\* carries the calendar date today - (89 - i) days, today being the date of
\* the clock (as the UTC date the cells are written in, or as the local
\* date); so the dates are pairwise distinct and consecutive
C6_NinetyConsecutiveDates ==
  days # <<>> =>
    /\ Len(days) = 90
    /\ \E t \in {Day(now), Day(LocalTime(tz, now))} :
         \A i \in 0..89 : days[i + 1].title = ISODate((t - (89 - i)) * HoursPerDay)
    /\ \A i \in 1..Len(days), j \in 1..Len(days) :
         i # j => days[i].title # days[j].title

\* C7: a cell is marked completed iff its date string is an element of the
\* completion-date list, and is-today iff its date equals today, so exactly
\* one cell, the last, is marked is-today
C7_CompletedAndTodayFlags ==
  days # <<>> =>
    /\ \A k \in 1..Len(days) :
         days[k].isCompleted <=>
           \E j \in 1..Len(completionDates) : completionDates[j] = days[k].title
    /\ \A k \in 1..Len(days) : days[k].isToday <=> days[k].title = today
    /\ {k \in 1..Len(days) : days[k].isToday} = {Len(days)}

\* the number of handler invocations of fn that are at pc
CountCalls(bag, fn, pc) ==
  BagCardinality([c \in {d \in DOMAIN bag : d.fn = fn /\ d.pc = pc} |-> bag[c]])

\* this step ends an invocation of fn whose request the backend answered
\* with the given outcome
Returns(c, fn, error) ==
  /\ c.fn = fn /\ c.pc = "replied" /\ c.error = error
  /\ CopiesIn(c, calls') < CopiesIn(c, calls)

\* C8: when complete_habit has succeeded and the handler goes on, the habit
\* id is in the completed-today set afterwards, every other member is kept
\* (and none is added), and exactly one re-fetch of the habit list starts
C8_CompleteAddsAndRefetchesOnce ==
  [][\A c \in DOMAIN calls :
       Returns(c, "handleCompleteHabit", FALSE) =>
         /\ c.habitId \in completedToday'
         /\ completedToday' \ {c.habitId} = completedToday \ {c.habitId}
         /\ CountCalls(calls', "fetchHabits", "sent")
              = CountCalls(calls, "fetchHabits", "sent") + 1
         /\ CountCalls(calls', "fetchHabits", "replied")
              = CountCalls(calls, "fetchHabits", "replied")]_vars

\* C8 witness: habit 2 has just been completed with success; the set had
\* members before, which are still there, and the re-fetch is in flight
C8_Witness ==
  /\ lastEvent = Event("complete done", 2)
  /\ completedToday = {1, 2, 3}
  /\ CountCalls(calls, "fetchHabits", "sent") = 1

\* C9: the delete request of uncomplete removes the completion record of
\* (habitId, today) and no other; when it has succeeded the habit id is not
\* in the completed-today set afterwards, every other member is kept, and
\* exactly one re-fetch of the habit list starts
C9_UncompleteDeletesTodayOnly ==
  [][\A c \in DOMAIN calls :
       /\ (/\ c.fn = "handleUncompleteHabit" /\ c.pc = "sent"
           /\ CopiesIn(c, calls') < CopiesIn(c, calls)) =>
            /\ completions \ completions' \subseteq {Completion(c.habitId, today)}
            /\ completions' \subseteq completions
       /\ Returns(c, "handleUncompleteHabit", FALSE) =>
            /\ c.habitId \notin completedToday'
            /\ completedToday' \ {c.habitId} = completedToday \ {c.habitId}
            /\ CountCalls(calls', "fetchHabits", "sent")
                 = CountCalls(calls, "fetchHabits", "sent") + 1
            /\ CountCalls(calls', "fetchHabits", "replied")
                 = CountCalls(calls, "fetchHabits", "replied")]_vars

\* C9 witness: habit 1 has just been uncompleted with success: its record
\* of today is gone and that of yesterday is kept, the other member of the
\* set is kept, and the re-fetch is in flight
C9_Witness ==
  /\ lastEvent = Event("uncomplete done", 1)
  /\ completedToday = {3}
  /\ Completion(1, today) \notin completions
  /\ Completion(1, yesterday) \in completions
  /\ Completion(3, today) \in completions
  /\ CountCalls(calls, "fetchHabits", "sent") = 1

\* complete and uncomplete requests the backend has not answered yet
ToggleRequests ==
  CountCalls(calls, "handleCompleteHabit", "sent")
    + CountCalls(calls, "handleUncompleteHabit", "sent")

\* C10: when a complete or uncomplete request has returned an error, the
\* handler leaves the completed-today set and the habit list as they were,
\* starts no re-fetch and does not send the request again: it only ends;
\* a new complete or uncomplete request takes a new user action
C10_ErrorLeavesStateAndNoRetry ==
  [][/\ \A c \in DOMAIN calls :
          (Returns(c, "handleCompleteHabit", TRUE)
             \/ Returns(c, "handleUncompleteHabit", TRUE)) =>
            /\ completedToday' = completedToday
            /\ habits' = habits
            /\ loading' = loading
            /\ calls' = calls (-) One(c)
     /\ ToggleRequests' > ToggleRequests => actions' = actions + 1]_vars

\* C10 witness: the uncomplete request of habit 1 has just failed: the id is
\* still in the set, the record still in the table, the list still shown,
\* and nothing is in flight
C10_Witness ==
  /\ lastEvent = Event("uncomplete failed", 1)
  /\ 1 \in completedToday
  /\ Completion(1, today) \in completions
  /\ Len(habits) = 2 /\ ~loading
  /\ calls = EmptyBag

\* C11: whenever the habit list is displayed (loading is false), every
\* habit in it has is_archived equal to the view switch, whatever the order
\* of view switches and habit-fetch responses
C11_ListMatchesView ==
  ~loading => \A i \in 1..Len(habits) : habits[i].is_archived = showArchived

\* the requests for the habit list of the view whose flag is given that
\* the backend has not executed yet
FetchesSentFor(bag, flag) ==
  BagCardinality([c \in {d \in DOMAIN bag : /\ d.fn = "fetchHabits" /\ d.pc = "sent"
                                            /\ d.archived = flag} |-> bag[c]])

\* C12: a step that flips the view switch starts exactly one fetch of the
\* habit list that carries the new value of the flag, and leaves the list
\* held as it is; the list held only ever changes when a fetch of the habit
\* list returns, and then to what that fetch answered
C12_ToggleRefetches ==
  [][/\ showArchived' # showArchived =>
          /\ FetchesSentFor(calls', showArchived')
               = FetchesSentFor(calls, showArchived') + 1
          /\ CountCalls(calls', "fetchHabits", "sent")
               = CountCalls(calls, "fetchHabits", "sent") + 1
          /\ habits' = habits
          /\ loading'
     /\ habits' # habits =>
          \E c \in DOMAIN calls :
            /\ c.fn = "fetchHabits" /\ c.pc = "replied"
            /\ CopiesIn(c, calls') < CopiesIn(c, calls)
            /\ habits' = (IF c.error THEN <<>>
                          ELSE [i \in 1..Len(c.data) |-> habitWithStreak(c.data[i])])]_vars

\* C12 witness: the switch has just been set to the archived view: the
\* active list is still held, and the fetch of the archived habits is sent
C12_Witness ==
  /\ lastEvent = Event("toggle", 0)
  /\ showArchived /\ loading
  /\ Len(habits) = 2 /\ \A i \in 1..Len(habits) : ~habits[i].is_archived
  /\ FetchesSentFor(calls, TRUE) = 1

\* a text of spaces only, or no text
OnlySpaces(text) == \A i \in 1..Len(text) : text[i] = 32

\* the step is the user's submit, create or evolve click
Clicked(step) == lastEvent'.step = step /\ actions' = actions + 1

RegisterRejects ==
  register.password # register.confirmPassword \/ Len(register.password) < 6

EvolveRejects ==
  \/ OnlySpaces(evolve.newDescription)
  \/ Some(evolve.newDescription) = dialogs.selectedHabit.v.description

CreateRejects == OnlySpaces(dialogs.newHabit.name)

\* C13: a submit of the registration form with passwords that differ or a
\* password of fewer than 6 characters, an evolve with a blank description
\* or the habit's current one, and a create with a blank name start no
\* request: the invocations in flight are the same after the click
C13_RejectedInputSendsNothing ==
  [][/\ Clicked("submit") /\ RegisterRejects => calls' = calls
     /\ Clicked("evolve") /\ EvolveRejects => calls' = calls
     /\ Clicked("create") /\ CreateRejects => calls' = calls]_vars

C13_Witness ==
  /\ lastEvent = Event("submit", 0)
  /\ register # Null
  /\ register.password = Str_12345 /\ register.confirmPassword = Str_12345
  /\ register.error = "Password must be at least 6 characters long"
  /\ calls = EmptyBag

\* C14: after a rejected submit, evolve or create the component shows a
\* non-empty error message: the registration form, the evolve modal and
\* the create-habit dialog alike
C14_RejectedInputShowsMessage ==
  [][/\ Clicked("submit") /\ RegisterRejects => register'.error # ""
     /\ Clicked("evolve") /\ EvolveRejects => evolve'.error # ""
     /\ Clicked("create") /\ CreateRejects => addHabitError' # ""]_vars

\* the steps in which a handler finds the error of its request and logs it
FailedSteps ==
  {"fetchHabits failed", "fetchTodayCompletions failed", "complete failed",
   "uncomplete failed", "add failed", "evolve failed"}

\* C15: when a handler has found that its backend request returned an error
\* (and has logged it), the page shows a failure message to the user
C15_BackendErrorShowsMessage ==
  [][lastEvent'.step \in FailedSteps => errorsShown' # {}]_vars

\* the callback page is shown with its handler at an await
CallbackPending(bag) ==
  CountCalls(bag, "exchangeCodeForSession", "sent")
    + CountCalls(bag, "exchangeCodeForSession", "replied")
    + CountCalls(bag, "getSession", "sent")
    + CountCalls(bag, "getSession", "replied") > 0

\* the handler has got a session for a code: the exchange and getSession
\* have both answered without a failure, and with a session
GotSession(c) ==
  /\ c.fn = "getSession" /\ c.pc = "replied"
  /\ c.payload # Null /\ Len(c.payload.v) > 0
  /\ ~c.data[1].failed /\ ~c.data[2].failed /\ c.data[2].session

OnFailureScreen ==
  /\ location = "/auth/callback"
  /\ authCallback.error # Null /\ authCallback.error.v # ""

C17_ListFetchRebuildsCompletedToday ==
  [][CountCalls(calls', "fetchHabits", "sent") > CountCalls(calls, "fetchHabits", "sent")
       => CountCalls(calls', "fetchTodayCompletions", "sent")
            > CountCalls(calls, "fetchTodayCompletions", "sent")]_vars

\* "YYYY-MM-DD" of the calendar date the wall clock of the zone shows at t
LocalDateString(zone, t) ==
  LET civil == CivilFromDay(Day(t + OffsetAt(zone, t)))
  IN Digits(civil.year, 4) \o <<45>> \o Digits(civil.month, 2) \o <<45>>
     \o Digits(civil.date, 2)

\* C18: the date sent with the fetch of today's completions and with an
\* uncomplete, and the date of the heatmap cell marked is-today, are the
\* calendar date in the time zone of the client
C18_TodayIsLocalDate ==
  days # <<>> =>
    /\ fetchTodayCompletionsCall.date = Some(LocalDateString(tz, now))
    /\ uncompleteCall(1).date = Some(LocalDateString(tz, now))
    /\ \E k \in 1..Len(days) :
         days[k].isToday /\ days[k].title = LocalDateString(tz, now)

\* C19: with every request answered without an error, whenever no request
\* is in flight the streak displayed for each habit is the backend's
\* current streak of the habit, whatever the order of the answers was
\* (the backend's streaks change by successful toggles only)
C19_StreaksConsistentWhenIdle ==
  calls = EmptyBag =>
    \A i \in 1..Len(habits) : habits[i].currentStreak = get_current_streak(habits[i].id)

\* the streaks the list hs displays for the habit
DisplayedStreaks(hs, habitId) ==
  {hs[i].currentStreak : i \in {j \in 1..Len(hs) : hs[j].id = habitId}}

\* C20: habit 2, not completed when the page loaded, has been completed;
\* when a re-fetch of the (active) list then ends with an error of the
\* select, the habit list stays as it was, and when it ends with an error
\* of a get_current_streak call, the streak displayed for that habit stays
\* as it was
C20_FailedRefetchKeepsStreaks ==
  [][\A c \in DOMAIN calls :
       /\ ~showArchived /\ 2 \in completedToday
       /\ Completion(2, today) \in completions
       /\ c.fn = "fetchHabits" /\ c.pc = "replied"
       /\ CopiesIn(c, calls') < CopiesIn(c, calls)
       => /\ c.error => habits' = habits
          /\ ~c.error =>
               \A i \in 1..Len(c.data) :
                 c.data[i].rpc = <<Null>> =>
                   DisplayedStreaks(habits', c.data[i].habit.id)
                     = DisplayedStreaks(habits, c.data[i].habit.id)]_vars

\* C21: while a complete or uncomplete request of a habit is in flight, the
\* button of that habit in the displayed list can still be clicked (as far
\* as the run has room for one more click and one more request)
C21_ToggleNotGuarded ==
  \A c \in DOMAIN calls, k \in 1..Len(filteredHabits) :
    /\ c.fn \in {"handleCompleteHabit", "handleUncompleteHabit"}
    /\ c.habitId = filteredHabits[k].id
    /\ location = "/dashboard" /\ dialogs = NoDialogs
    /\ ~loading /\ ~showArchived
    /\ BagCardinality(calls) < capacity /\ actions < MaxActions
    => ENABLED ClickComplete(k)

\* C21 witness: the second click on habit 2 has issued the same operation as
\* the first: two complete requests of the habit are in flight, not yet
\* executed, and the local set still lacks the habit
C21_Witness ==
  /\ lastEvent = Event("click", 2)
  /\ 2 \notin completedToday
  /\ \E c \in DOMAIN calls :
       /\ c.fn = "handleCompleteHabit" /\ c.habitId = 2 /\ c.pc = "sent"
       /\ CopiesIn(c, calls) = 2

\* the completion dates of the mounted StatsModal have been fetched: the
\* modal is mounted and its fetchCompletions() has resumed
CompletionsFetched ==
  /\ statsModal # Null
  /\ dialogs.selectedHabit # Null
  /\ \A c \in DOMAIN calls : c.fn = "fetchCompletions" => ~stillMounted(c)

\* C22: the completions query of the StatsModal has the lower bound today - 90
\* days and no upper bound: no heatmap cell has a date below the bound of the
\* query in flight, and once the fetch has resumed every cell whose date has a
\* completion of the habit in the backend is drawn as completed.
C22_CellsInsideQueriedRange ==
  statsModal # Null =>
    LET cells == renderCalendar
    IN /\ \A c \in DOMAIN calls :
            c.fn = "fetchCompletions" /\ stillMounted(c)
            => \A k \in 1..CalendarDays : ~StrLess(cells[k].title, c.payload.v.since)
       /\ CompletionsFetched
            => \A k \in 1..CalendarDays :
                 cells[k].title \in datesOf(dialogs.selectedHabit.v.id)
                 => cells[k].isCompleted

\* the statistics of habit 1 are rendered, the first cell and the last are
\* drawn as completed
C22_Witness ==
  /\ CompletionsFetched
  /\ calendarShown
  /\ dialogs.selectedHabit.v.id = 1
  /\ days = renderCalendar
  /\ days[1].isCompleted
  /\ days[CalendarDays].isCompleted

\* the habits with a completion row for today in the backend
BackendCompletedToday == {r.habit_id : r \in {q \in completions : q.date = today}}

\* C23: when every request succeeds, once no request is in flight the
\* completed-today set of the Dashboard is the set of habits that have a
\* completion row for today in the backend, whatever the order in which the
\* first fetchTodayCompletions() and the toggles were answered.
C23_QuiescentCompletedToday ==
  ~faults /\ calls = EmptyBag => completedToday = BackendCompletedToday

\* C24: the selected tag is none or one of the tags the tag select offers,
\* a member of allTags of the habit list now held, in every state of the
\* Dashboard.
C24_SelectedTagIsOffered ==
  location = "/dashboard" => (selectedTag = Null \/ arrayIncludes(allTags, selectedTag.v))

\* a fetchHabits() invocation has not finished
ListFetchInFlight == \E c \in DOMAIN calls : c.fn = "fetchHabits"

\* C25: the loading flag of the Dashboard is true whenever a fetch of the
\* habit list is in flight, also after the first of two overlapping fetches
\* has resumed, and false when none is.
C25_LoadingWhileFetching ==
  location = "/dashboard" => (loading <=> ListFetchInFlight)

\* the evolve_habit requests not yet handled, answered or not
EvolveRequests ==
  CountCalls(calls, "evolve_habit", "sent") + CountCalls(calls, "evolve_habit", "replied")

\* C26: the EvolveHabitModal has at most one evolve_habit request in flight;
\* while it is in flight loading is true and neither Evolve nor Cancel can
\* be clicked; with none in flight, so after every response, loading is
\* false.
C26_OneEvolveRequest ==
  /\ EvolveRequests <= 1
  /\ EvolveRequests = 1
       => /\ evolve # Null /\ evolve.loading
          /\ ~ENABLED handleEvolve
          /\ ~ENABLED closeEvolve
  /\ EvolveRequests = 0 => (evolve = Null \/ ~evolve.loading)

\* a request was in flight and failed, its response is handled: the modal
\* is open with the error text and loading false
C26_Witness ==
  /\ lastEvent = Event("evolve failed", 1)
  /\ EvolveRequests = 0
  /\ evolve # Null /\ ~evolve.loading
  /\ evolve.error = "Failed to evolve habit. Please try again."

\* the signUp requests not yet handled, answered or not
SignUpRequests == CountCalls(calls, "signUp", "sent") + CountCalls(calls, "signUp", "replied")

SentFor(bag, fn, habitId) ==
  BagCardinality([c \in {d \in DOMAIN bag : /\ d.fn = fn /\ d.pc = "sent"
                                            /\ d.habitId = habitId} |-> bag[c]])

\* C28: a step that sends a delete request sends it for the habit selected
\* in the open confirmation modal; the step that handles a successful delete
\* closes the modal, clears the selection and starts one fetch of the habit
\* list; the step that handles a failed delete leaves the modal and the
\* selection as they were (open and selected when they were), the list as
\* it was, and starts no fetch.
C28_DeleteFollowsConfirmation ==
  [][/\ \A h \in HabitIds :
          SentFor(calls', "handleDeleteHabit", h) > SentFor(calls, "handleDeleteHabit", h)
          => /\ dialogs.showDeleteConfirm
             /\ dialogs.selectedHabit # Null
             /\ dialogs.selectedHabit.v.id = h
     /\ \A c \in DOMAIN calls :
          /\ Returns(c, "handleDeleteHabit", FALSE)
               => /\ ~dialogs'.showDeleteConfirm
                  /\ dialogs'.selectedHabit = Null
                  /\ CountCalls(calls', "fetchHabits", "sent")
                       = CountCalls(calls, "fetchHabits", "sent") + 1
          /\ Returns(c, "handleDeleteHabit", TRUE)
               => /\ dialogs' = dialogs
                  /\ habits' = habits
                  /\ habitRows' = habitRows
                  /\ loading' = loading
                  /\ CountCalls(calls', "fetchHabits", "sent")
                       = CountCalls(calls, "fetchHabits", "sent")]_vars

\* a delete of habit 2 has failed: the modal is still open on habit 2, the
\* list still holds it and nothing is in flight
C28_Witness ==
  /\ lastEvent = Event("delete failed", 2)
  /\ dialogs.showDeleteConfirm
  /\ dialogs.selectedHabit # Null /\ dialogs.selectedHabit.v.id = 2
  /\ \E i \in 1..Len(habits) : habits[i].id = 2
  /\ calls = EmptyBag

\* the insert requests of the bag that wait for the backend
InsertsSent(bag) == {c \in DOMAIN bag : c.fn = "insert" /\ c.pc = "sent"}

\* C29: an insert is sent only by a handler whose getUser() gave a user, with
\* a name that is not blank, and every row inserted is not archived; the
\* step that handles a successful insert empties the form, closes the dialog
\* and starts one fetch of the habit list; the step that handles a failed
\* insert leaves the form and the dialog as they were and starts no fetch.
C29_InsertOnlyValidAndReset ==
  [][/\ \A c \in InsertsSent(calls') \ InsertsSent(calls) :
          /\ ~OnlySpaces(c.payload.v.name)
          /\ \E g \in DOMAIN calls :
               /\ g.fn = "handleAddHabit" /\ g.pc = "replied" /\ g.data[1].user
               /\ g.payload = c.payload
               /\ CopiesIn(g, calls') < CopiesIn(g, calls)
     /\ Len(habitRows') > Len(habitRows)
          => /\ ~habitRows'[1].is_archived
             /\ ~OnlySpaces(habitRows'[1].name)
             /\ \E c \in InsertsSent(calls) : CopiesIn(c, calls') < CopiesIn(c, calls)
     /\ \A c \in DOMAIN calls :
          /\ Returns(c, "insert", FALSE)
               => /\ dialogs'.newHabit = [name |-> <<>>, description |-> <<>>, tags |-> <<>>]
                  /\ ~dialogs'.showAddHabit
                  /\ CountCalls(calls', "fetchHabits", "sent")
                       = CountCalls(calls, "fetchHabits", "sent") + 1
          /\ Returns(c, "insert", TRUE)
               => /\ dialogs' = dialogs
                  /\ habits' = habits
                  /\ CountCalls(calls', "fetchHabits", "sent")
                       = CountCalls(calls, "fetchHabits", "sent")]_vars

\* an insert of the habit Walk with the tags x and y has failed: the dialog
\* is still open with what was typed, the table has no new row and no fetch
\* is in flight
C29_Witness ==
  /\ lastEvent = Event("add failed", 0)
  /\ dialogs.showAddHabit
  /\ dialogs.newHabit.name = Str_Walk /\ dialogs.newHabit.tags = Str_x_y
  /\ habitRows = habitsTable
  /\ calls = EmptyBag

\* where the segments of a comma-separated text start: at its first code
\* unit and after every comma
SegmentStarts(text) == {i \in 1..(Len(text) + 1) : i = 1 \/ text[i - 1] = 44}

\* the segment that starts at i: up to the next comma or the end
SegmentAt(text, i) ==
  LET stops == {j \in i..(Len(text) + 1) : j = Len(text) + 1 \/ text[j] = 44}
      stop == CHOOSE j \in stops : \A k \in stops : j <= k
  IN SubSeq(text, i, stop - 1)

\* a segment without the white space around it
Core(segment) ==
  LET inked == {i \in 1..Len(segment) : segment[i] \notin WhiteSpace}
  IN IF inked = {} THEN <<>>
     ELSE SubSeq(segment, CHOOSE i \in inked : \A j \in inked : i <= j,
                          CHOOSE i \in inked : \A j \in inked : i >= j)

\* the starts of the segments that are not empty or white space only
KeptStarts(text) == {i \in SegmentStarts(text) : Core(SegmentAt(text, i)) # <<>>}

\* tags is what the claim says parseTags gives for the text
TagsOfText(tags, text) ==
  IF KeptStarts(text) = {} THEN tags = Null
  ELSE /\ tags # Null
       /\ Len(tags.v) = Cardinality(KeptStarts(text))
       /\ \A i \in KeptStarts(text) :
            tags.v[Cardinality({j \in KeptStarts(text) : j <= i})]
              = Core(SegmentAt(text, i))

\* C30: the tags stored for a tags text are null when every comma-separated
\* segment is empty or white space only, and otherwise the list, in the
\* order of the text and with duplicates kept, of the segments that are not,
\* each without the white space around it; no stored tag is empty or begins
\* or ends with white space.
C30_ParseTagsKeepsTrimmedSegments ==
  [][Len(habitRows') > Len(habitRows)
       => /\ \E c \in InsertsSent(calls) :
               /\ CopiesIn(c, calls') < CopiesIn(c, calls)
               /\ TagsOfText(habitRows'[1].tags, c.payload.v.tags)
          /\ habitRows'[1].tags # Null
               => /\ Len(habitRows'[1].tags.v) > 0
                  /\ \A k \in 1..Len(habitRows'[1].tags.v) :
                       LET tag == habitRows'[1].tags.v[k]
                       IN /\ tag # <<>>
                          /\ tag[1] \notin WhiteSpace
                          /\ tag[Len(tag)] \notin WhiteSpace]_vars

\* the text " x,x" was stored as the two tags x and x
C30_Witness ==
  /\ Len(habitRows) = Len(habitsTable) + 1
  /\ habitRows[1].tags = Some(<< <<120>>, <<120>> >>)
  /\ \E c \in DOMAIN calls :
       /\ c.fn = "insert" /\ c.pc = "replied" /\ ~c.error
       /\ c.payload.v.tags = <<32, 120, 44, 120>>

============================================================================
